---- MODULE Spec2Model ----
(***************************************************************************)
(* A model of jay::time (time.cpp, timezone.cpp, iso8601.cpp): calendar    *)
(* validation, FILETIME tick arithmetic, conversion of timezone transition *)
(* rules, the resolution of a UTC time to local time with its TIME_ZONE_ID *)
(* and the ISO8601 output objects DayDateTime and TimeInfo.                *)
(*                                                                         *)
(* TLC integers are 32 bits wide.  A signed 64-bit count of 100ns ticks    *)
(* (LARGE_INTEGER.QuadPart, long long) is therefore kept in mixed radix as *)
(* a record [d, m, t] that stands for                                      *)
(*        d * 864000000000 + m * 600000000 + t                             *)
(* with 0 <= m < 1440 and 0 <= t < 600000000 (days, minutes of the day,    *)
(* ticks of the minute); d carries the sign.                               *)
(***************************************************************************)
EXTENDS Integers, Sequences, FiniteSets, TLC

VARIABLES
    pc,          \* "ready": the arguments are set; "done": the call returned
    op,          \* the function the caller calls
    utc_st,      \* [in] UTC time
    os,          \* the Windows time zone settings GetTimezoneForYear reads
    tzi,         \* TIME_ZONE_INFORMATION ([in] of the resolver, [out] of the converter)
    tzi_year,    \* [in] GetLocalTimeForTimezone: the year of tzi (0: default)
    strict,      \* [in] GetLocalTimeForTimezone
    local_time,  \* [out] the caller's SYSTEMTIME
    tzi_id,      \* [out] the TIME_ZONE_ID (the resolver's return value)
    ret,         \* the return value of a bool function
    lastError,   \* the thread's last-error code
    attempts,    \* the calls UTCTimeToLocalTime made, in order
    local,       \* [in] LocalTimeToRelativeTimezoneTime
    flag,        \* [in] make_final_occurrence_if_last_occurrence
    tzt,         \* [out] LocalTimeToRelativeTimezoneTime, [in] TimezoneTimeToLocalTime
    filetime,    \* [in, out] the FILETIME ft of the FileTime functions
    ft_before,   \* the caller's copy of the FILETIME, taken before the first call
    n_intervals, \* [in] intervals of FileTimeAdd/Subtract100nsIntervals
    n_minutes,   \* [in] minutes of FileTimeAddMinutes, FileTimeSubtractMinutes
    build,       \* what the build makes of a signed overflow: "wrap" or "trap"
    iso8601,     \* the ISO8601 object: its sticky parameters
    ti,          \* [out] the TimeInfo object of ISO8601::GetTimeInfo
    ddt          \* [out] the DayDateTime object of ISO8601::GetTimeInfo

vars == <<pc, op, utc_st, os, tzi, tzi_year, strict, local_time, tzi_id, ret,
          lastError, attempts, local, flag, tzt, filetime, ft_before,
          n_intervals, n_minutes, build, iso8601, ti, ddt>>

\* the variables of the FileTime functions, and the others
FileTimeVars == <<filetime, ft_before, n_intervals, n_minutes, build>>
ZoneVars == <<utc_st, os, tzi, strict, tzi_id, lastError, attempts>>
\* the variables of the ISO8601 functions
ISO8601Vars == <<iso8601, ti, ddt>>

(***************************************************************************)
(* Program constants.                                                      *)
(***************************************************************************)
TIME_ZONE_ID_UNKNOWN == 0
TIME_ZONE_ID_STANDARD == 1
TIME_ZONE_ID_DAYLIGHT == 2
\* (DWORD)0xFFFFFFFF; only compared for equality, so -1 stands for it
TIME_ZONE_ID_INVALID == -1
ERROR_SUCCESS == 0
ERROR_NOT_SUPPORTED == 50
ERROR_INVALID_TIME == 1901
\* an error code a failing WinAPI time zone call leaves behind
ERROR_FROM_WINAPI == 5
MinYear == 1601
MaxYear == 30827
max_diff == 1440
LONG_MIN == -2147483647 - 1
LONG_MAX == 2147483647
MinutesPerDay == 1440
TicksPerMinute == 600000000
TicksPerMillisecond == 10000

(***************************************************************************)
(* SYSTEMTIME                                                              *)
(***************************************************************************)
MkSystemTime(y, mo, dow, d, h, mi, s, ms) ==
    [wYear |-> y, wMonth |-> mo, wDayOfWeek |-> dow, wDay |-> d,
     wHour |-> h, wMinute |-> mi, wSecond |-> s, wMilliseconds |-> ms]

\* SYSTEMTIME x = {};
ZeroSystemTime == MkSystemTime(0, 0, 0, 0, 0, 0, 0, 0)

(***************************************************************************)
(* time.hpp / time.cpp                                                     *)
(***************************************************************************)
IsYearValid(year) == (year >= MinYear) /\ (year <= MaxYear)

\* every fourth year a leap year
IsLeapYear_EveryFourth(year) == year % 4 = 0

IsLeapYear(year) ==
    IF year % 400 = 0 THEN TRUE
    ELSE IF year % 100 = 0 THEN FALSE
    ELSE IF year % 4 = 0 THEN TRUE
    ELSE FALSE

\* no month shorter than 30 days
days_in_month_FebruaryOf30 == <<31, 30, 31, 30, 31, 30, 31, 31, 30, 31, 30, 31>>

days_in_month == <<31, 28, 31, 30, 31, 30, 31, 31, 30, 31, 30, 31>>

IsDateValid(day, month, year) ==
    IF ~IsYearValid(year) \/ (month < 1 \/ month > 12) \/ (day < 1 \/ day > 31)
    THEN FALSE
    ELSE (day <= days_in_month[month])
         \/ (day = 29 /\ month = 2 /\ IsLeapYear(year))

\* const unsigned t[ 12 ]
\* 32-bit and 64-bit values as 16-bit words, lowest first
Word == 2^16
HalfWord == 2^15

\* the one element of a singleton: {f(x) : x \in {call}} binds x to the value
\* of a call that the code makes once
Only(S) == CHOOSE x \in S : TRUE

\* y divided by k, 0 < k <= 10000: [q |-> quotient words, r |-> remainder]
WordsDividedBy(y, k) ==
    LET r4 == y[4] % k
        n3 == r4 * Word + y[3]
        n2 == (n3 % k) * Word + y[2]
        n1 == (n2 % k) * Word + y[1]
    IN  [q |-> <<n1 \div k, n2 \div k, n3 \div k, y[4] \div k>>, r |-> n1 % k]

\* the sequence with the fourth entry changed
SakamotoTable_AprilShifted == <<0, 3, 2, 4, 0, 3, 5, 1, 4, 6, 2, 4>>

SakamotoTable == <<0, 3, 2, 5, 0, 3, 5, 1, 4, 6, 2, 4>>

\* the week counted from Monday
GetDayOfWeek_FromMonday(day, month, year) ==
    IF (month < 1) \/ (month > 12) THEN 0
    ELSE LET y == year - (IF month < 3 THEN 1 ELSE 0)
         IN  (y + (y \div 4) - (y \div 100) + (y \div 400)
                + SakamotoTable[month] + day + 6) % 7

\* unsigned is 32 bits wide.  For year 0 and month < 3, y wraps to 2^32 - 1:
\* y + y/4 - y/100 + y/400 is then 5336496864, which is 1041529568 modulo
\* 2^32.  For the years and days below 2^28 no sum reaches 2^31.
GetDayOfWeek(day, month, year) ==
    IF (month < 1) \/ (month > 12) THEN 0
    ELSE IF year = 0 /\ month < 3
         THEN (1041529568 + SakamotoTable[month] + day) % 7
         ELSE LET y == year - (IF month < 3 THEN 1 ELSE 0)
              IN  (y + (y \div 4) - (y \div 100) + (y \div 400)
                     + SakamotoTable[month] + day) % 7

IsSystemTimeValid_IgnoreDayOfWeek(st) ==
    /\ IsDateValid(st.wDay, st.wMonth, st.wYear)
    /\ st.wHour <= 23
    /\ st.wMinute <= 59
    /\ st.wSecond <= 59
    /\ st.wMilliseconds <= 999

IsSystemTimeValid(st) ==
    /\ IsSystemTimeValid_IgnoreDayOfWeek(st)
    /\ st.wDayOfWeek = GetDayOfWeek(st.wDay, st.wMonth, st.wYear)

(***************************************************************************)
(* 64-bit values in mixed radix.                                           *)
(***************************************************************************)
I64(d, m, t) == [d |-> d, m |-> m, t |-> t]

I64Zero == I64(0, 0, 0)
\* LLONG_MAX = 9223372036854775807, LLONG_MIN = -9223372036854775808
LLONG_MAX == I64(10675199, 168, 54775807)
LLONG_MIN == I64(-10675200, 1271, 545224192)
\* FILETIME max = { 0xF06C58F0, 0x7FFF35F4 }: 30827-12-31 23:59:59.999
FILETIME_MAX == I64(10674941, 1439, 599990000)

I64Less(a, b) ==
    \/ a.d < b.d
    \/ (a.d = b.d /\ a.m < b.m)
    \/ (a.d = b.d /\ a.m = b.m /\ a.t < b.t)

I64IsZero(a) == a = I64Zero
I64IsNegative(a) == a.d < 0
I64IsPositive(a) == ~I64IsNegative(a) /\ ~I64IsZero(a)

\* the mathematical sum, difference and negation, carried between the digits
I64Add(a, b) ==
    LET t == a.t + b.t - TicksPerMinute  \* kept below 2^31
        ct == IF t >= 0 THEN 1 ELSE 0
        m == a.m + b.m + ct
        cm == IF m >= MinutesPerDay THEN 1 ELSE 0
    IN  I64(a.d + b.d + cm,
            m - cm * MinutesPerDay,
            IF t >= 0 THEN t ELSE t + TicksPerMinute)

I64Neg(a) ==
    LET bt == IF a.t = 0 THEN 0 ELSE 1
        m == a.m + bt
        bm == IF m = 0 THEN 0 ELSE 1
    IN  I64(-a.d - bm,
            IF m = 0 THEN 0 ELSE MinutesPerDay - m,
            IF a.t = 0 THEN 0 ELSE TicksPerMinute - a.t)

I64Sub(a, b) == I64Add(a, I64Neg(b))

\* minutes * 10000 * 1000 * 60, for minutes a 32-bit value (no product of a
\* LONG with 600000000 leaves the 64-bit range)
MinutesToIntervals(minutes) ==
    I64(minutes \div MinutesPerDay, minutes % MinutesPerDay, 0)

(***************************************************************************)
(* FILETIME: the 64-bit tick count since 1601-01-01 00:00 UTC.             *)
(***************************************************************************)
\* dwHighDateTime is compared unsigned: a negative QuadPart is above max
IsFileTimeValid(ft) == ~I64IsNegative(ft) /\ ~I64Less(FILETIME_MAX, ft)

\* a result outside the valid range is not written to the caller's FILETIME
FileTimeSubtract100nsIntervals_ResultDiscarded(ft, intervals) ==
    IF ~IsFileTimeValid(ft) THEN [ok |-> FALSE, ft |-> ft]
    ELSE IF I64IsZero(intervals) THEN [ok |-> TRUE, ft |-> ft]
    ELSE IF \/ (I64IsPositive(intervals) /\ I64Less(ft, I64Add(LLONG_MIN, intervals)))
            \/ (I64IsNegative(intervals) /\ I64Less(I64Add(LLONG_MAX, intervals), ft))
         THEN [ok |-> FALSE, ft |-> ft]
    ELSE LET li == I64Sub(ft, intervals)
         IN  IF IsFileTimeValid(li) THEN [ok |-> TRUE, ft |-> li]
             ELSE [ok |-> FALSE, ft |-> ft]

\* the validity of the result is not checked
FileTimeSubtract100nsIntervals_ResultUnchecked(ft, intervals) ==
    IF ~IsFileTimeValid(ft) THEN [ok |-> FALSE, ft |-> ft]
    ELSE [ok |-> TRUE, ft |-> I64Sub(ft, intervals)]

\* [ok |-> the return value, ft |-> the caller's FILETIME after the call]
FileTimeSubtract100nsIntervals(ft, intervals) ==
    IF ~IsFileTimeValid(ft) THEN [ok |-> FALSE, ft |-> ft]
    ELSE IF I64IsZero(intervals) THEN [ok |-> TRUE, ft |-> ft]
    ELSE IF \/ (I64IsPositive(intervals) /\ I64Less(ft, I64Add(LLONG_MIN, intervals)))
            \/ (I64IsNegative(intervals) /\ I64Less(I64Add(LLONG_MAX, intervals), ft))
         THEN [ok |-> FALSE, ft |-> ft]
    ELSE LET li == I64Sub(ft, intervals)
         IN  [ok |-> IsFileTimeValid(li), ft |-> li]

\* the intervals are not negated
FileTimeAdd100nsIntervals_NotNegated(ft, intervals) ==
    FileTimeSubtract100nsIntervals(ft, intervals)

FileTimeAdd100nsIntervals(ft, intervals) ==
    IF \/ (I64IsNegative(intervals) /\ I64IsNegative(I64Add(LLONG_MAX, intervals)))
       \/ (I64IsPositive(intervals) /\ I64IsPositive(I64Add(LLONG_MIN, intervals)))
    THEN [ok |-> FALSE, ft |-> ft]
    ELSE FileTimeSubtract100nsIntervals(ft, I64Neg(intervals))

(***************************************************************************)
(* long long as its 64-bit pattern: four 16-bit words, lowest first, in    *)
(* two's complement.  The products of time.cpp:192 and time.cpp:198 are    *)
(* formed word by word, so that a product leaving the 64-bit range is      *)
(* seen.                                                                   *)
(***************************************************************************)
\* the conversion of a 32-bit value to long long (sign extension)
LongLong(n) ==
    IF n >= 0 THEN <<n % Word, n \div Word, 0, 0>>
    ELSE <<n % Word, (n \div Word) % Word, Word - 1, Word - 1>>

LongLongIsNegative(x) == x[4] >= HalfWord

\* -x modulo 2^64
LongLongNeg(x) ==
    LET s1 == (Word - 1 - x[1]) + 1
        s2 == (Word - 1 - x[2]) + s1 \div Word
        s3 == (Word - 1 - x[3]) + s2 \div Word
        s4 == (Word - 1 - x[4]) + s3 \div Word
    IN  <<s1 % Word, s2 % Word, s3 % Word, s4 % Word>>

\* |x| as an unsigned 64-bit pattern (2^63 for LLONG_MIN)
LongLongMagnitude(x) == IF LongLongIsNegative(x) THEN LongLongNeg(x) ELSE x

\* y * k for an unsigned pattern y and 0 < k < 2^15: five words
WordsTimes(y, k) ==
    LET p1 == y[1] * k
        p2 == y[2] * k + p1 \div Word
        p3 == y[3] * k + p2 \div Word
        p4 == y[4] * k + p3 \div Word
    IN  <<p1 % Word, p2 % Word, p3 % Word, p4 % Word, p4 \div Word>>

\* x * k: [value |-> the product modulo 2^64,
\*         overflow |-> the mathematical product is not a long long]
LongLongTimes(x, k) ==
    Only({[value |-> SubSeq(w, 1, 4),
           overflow |->
               \/ m[5] # 0
               \/ /\ m[4] >= HalfWord
                  /\ ~(LongLongIsNegative(x) /\ SubSeq(m, 1, 4) = <<0, 0, 0, HalfWord>>)] :
          w \in {WordsTimes(x, k)}, m \in {WordsTimes(LongLongMagnitude(x), k)}})

\* minutes * 10000 * 1000 * 60, evaluated left to right
MinutesProduct(minutes) ==
    LET a == LongLongTimes(minutes, 10000)
        b == LongLongTimes(a.value, 1000)
        c == LongLongTimes(b.value, 60)
    IN  [value |-> c.value, overflow |-> a.overflow \/ b.overflow \/ c.overflow]

\* the long long as days, minutes and 100ns intervals
LongLongToI64(x) ==
    LET a == WordsDividedBy(LongLongMagnitude(x), 10000)
        b == WordsDividedBy(a.q, 1000)
        c == WordsDividedBy(b.q, 60)
        e == WordsDividedBy(c.q, MinutesPerDay)
        magnitude == I64(e.q[1] + Word * e.q[2], e.r,
                         a.r + 10000 * (b.r + 1000 * c.r))
    IN  IF LongLongIsNegative(x) THEN I64Neg(magnitude) ELSE magnitude

FileTimeSubtractMinutes_Adds(ft, minutes) ==
    FileTimeSubtract100nsIntervals(ft, MinutesToIntervals(-minutes))

FileTimeSubtractMinutes(ft, minutes) ==
    FileTimeSubtract100nsIntervals(ft, MinutesToIntervals(minutes))

(***************************************************************************)
(* The WinAPI conversions SystemTimeToFileTime and FileTimeToSystemTime,   *)
(* as Windows documents them: the proleptic Gregorian calendar, counted    *)
(* from 1601-01-01 (a Monday); wDayOfWeek is ignored on input and computed *)
(* on output.                                                              *)
(***************************************************************************)
DaysPer400Years == 146097
DaysPer100Years == 36524
DaysPer4Years == 1461
DaysPerYear == 365

CumulativeDays == <<0, 31, 59, 90, 120, 151, 181, 212, 243, 273, 304, 334>>

DaysBeforeMonth(month, year) ==
    CumulativeDays[month] + (IF month > 2 /\ IsLeapYear(year) THEN 1 ELSE 0)

\* the leap years in MinYear .. year - 1
LeapYearsBefore(year) ==
    LET n == year - 1
    IN  ((n \div 4) - (n \div 100) + (n \div 400)) - 388

DaysFromCivil(day, month, year) ==
    (year - MinYear) * DaysPerYear + LeapYearsBefore(year)
        + DaysBeforeMonth(month, year) + (day - 1)

CivilFromDays(n) ==
    LET n400 == n \div DaysPer400Years
        r1 == n % DaysPer400Years
        q100 == r1 \div DaysPer100Years
        n100 == IF q100 > 3 THEN 3 ELSE q100
        r2 == r1 - n100 * DaysPer100Years
        n4 == r2 \div DaysPer4Years
        r3 == r2 % DaysPer4Years
        q1 == r3 \div DaysPerYear
        n1 == IF q1 > 3 THEN 3 ELSE q1
        doy == r3 - n1 * DaysPerYear
        year == MinYear + 400 * n400 + 100 * n100 + 4 * n4 + n1
        month == CHOOSE mo \in 1..12 :
                    /\ DaysBeforeMonth(mo, year) <= doy
                    /\ (mo = 12 \/ doy < DaysBeforeMonth(mo + 1, year))
    IN  [year |-> year, month |-> month,
         day |-> doy - DaysBeforeMonth(month, year) + 1]

SystemTimeToFileTime(st) ==
    IF ~IsSystemTimeValid_IgnoreDayOfWeek(st) THEN [ok |-> FALSE, ft |-> I64Zero]
    ELSE [ok |-> TRUE,
          ft |-> I64(DaysFromCivil(st.wDay, st.wMonth, st.wYear),
                     st.wHour * 60 + st.wMinute,
                     (st.wSecond * 1000 + st.wMilliseconds) * TicksPerMillisecond)]

FileTimeToSystemTime(ft) ==
    IF I64IsNegative(ft) THEN [ok |-> FALSE, st |-> ZeroSystemTime]
    ELSE LET c == CivilFromDays(ft.d)
             msec == ft.t \div TicksPerMillisecond
         IN  [ok |-> TRUE,
              st |-> MkSystemTime(c.year, c.month, (ft.d + 1) % 7, c.day,
                                  ft.m \div 60, ft.m % 60,
                                  msec \div 1000, msec % 1000)]

\* [ok |-> the return value, st |-> the caller's SYSTEMTIME after the call]
SystemTimeSubtractMinutes(st, minutes) ==
    IF ~IsSystemTimeValid(st) THEN [ok |-> FALSE, st |-> st]
    ELSE LET toft == SystemTimeToFileTime(st)
         IN  IF ~toft.ok THEN [ok |-> FALSE, st |-> st]
             ELSE LET sub == FileTimeSubtractMinutes(toft.ft, minutes)
                  IN  IF ~sub.ok THEN [ok |-> FALSE, st |-> st]
                      ELSE LET tost == FileTimeToSystemTime(sub.ft)
                           IN  IF ~tost.ok THEN [ok |-> FALSE, st |-> st]
                               ELSE [ok |-> TRUE, st |-> tost.st]

\* the greater case is not told from equality
RETURN_IF_NOT_EQUAL_OnlyLess(a, b, rest) == IF a < b THEN -1 ELSE rest

RETURN_IF_NOT_EQUAL(a, b, rest) == IF a < b THEN -1 ELSE IF a > b THEN 1 ELSE rest

CompareSystemTimes_IgnoreDayOfWeek(a, b) ==
    RETURN_IF_NOT_EQUAL(a.wYear, b.wYear,
    RETURN_IF_NOT_EQUAL(a.wMonth, b.wMonth,
    RETURN_IF_NOT_EQUAL(a.wDay, b.wDay,
    RETURN_IF_NOT_EQUAL(a.wHour, b.wHour,
    RETURN_IF_NOT_EQUAL(a.wMinute, b.wMinute,
    RETURN_IF_NOT_EQUAL(a.wSecond, b.wSecond,
    RETURN_IF_NOT_EQUAL(a.wMilliseconds, b.wMilliseconds, 0)))))))

\* the time of day left out of the comparison
CompareSystemTimes_DateOnly(a, b) ==
    RETURN_IF_NOT_EQUAL(a.wYear, b.wYear,
    RETURN_IF_NOT_EQUAL(a.wMonth, b.wMonth,
    RETURN_IF_NOT_EQUAL(a.wDay, b.wDay, 0)))

\* the year and the month left out of the comparison
CompareSystemTimes_WithinTheMonth(a, b) ==
    RETURN_IF_NOT_EQUAL(a.wDay, b.wDay,
    RETURN_IF_NOT_EQUAL(a.wHour, b.wHour,
    RETURN_IF_NOT_EQUAL(a.wMinute, b.wMinute, 0)))

CompareSystemTimes(a, b) ==
    LET x == CompareSystemTimes_IgnoreDayOfWeek(a, b)
    IN  IF x # 0 THEN x
        ELSE RETURN_IF_NOT_EQUAL(a.wDayOfWeek, b.wDayOfWeek, 0)

(***************************************************************************)
(* timezone.hpp / timezone.cpp                                             *)
(***************************************************************************)
\* a name array that holds no terminating null in its 32 wide characters
UnterminatedName == "<32 wide characters, none of them null>"

MkTzi(bias, sname, sdate, sbias, dname, ddate, dbias) ==
    [Bias |-> bias, StandardName |-> sname, StandardDate |-> sdate,
     StandardBias |-> sbias, DaylightName |-> dname, DaylightDate |-> ddate,
     DaylightBias |-> dbias]

\* TIME_ZONE_INFORMATION tzi = {};
ZeroTzi == MkTzi(0, "", ZeroSystemTime, 0, "", ZeroSystemTime, 0)

IsRelativeTimezoneTimeValid(t) ==
    /\ t.wYear = 0
    /\ (t.wMonth >= 1 /\ t.wMonth <= 12)
    /\ t.wDayOfWeek <= 6
    /\ (t.wDay >= 1 /\ t.wDay <= 5)
    /\ t.wHour <= 23
    /\ t.wMinute <= 59
    /\ t.wSecond <= 59
    /\ t.wMilliseconds <= 999

\* no transition taken as absolute
IsAbsoluteTimezoneTimeValid_Never(t) == FALSE

IsAbsoluteTimezoneTimeValid(t) == IsSystemTimeValid_IgnoreDayOfWeek(t)

IsTimezoneTimeValid(t) ==
    IsRelativeTimezoneTimeValid(t) \/ IsAbsoluteTimezoneTimeValid(t)

IsTimezoneTimeIgnored(t) == t.wMonth = 0

\* the sums with StandardBias and DaylightBias are not checked
AreTimezoneBiasesValid_BaseBiasOnly(z) ==
    z.Bias >= -max_diff /\ z.Bias <= max_diff

AreTimezoneBiasesValid(z) ==
    IF \/ (z.Bias > 0 /\ z.Bias > max_diff)
       \/ (z.Bias < 0 /\ z.Bias < -max_diff)
       \/ (z.StandardBias > 0 /\ z.Bias > (max_diff - z.StandardBias))
       \/ (z.StandardBias < 0 /\ z.Bias < (-max_diff - z.StandardBias))
       \/ (z.DaylightBias > 0 /\ z.Bias > (max_diff - z.DaylightBias))
       \/ (z.DaylightBias < 0 /\ z.Bias < (-max_diff - z.DaylightBias))
    THEN FALSE
    ELSE TRUE

IsTimezoneInfoValid(z, allow_ignored_dates) ==
    /\ AreTimezoneBiasesValid(z)
    /\ (IsTimezoneTimeValid(z.StandardDate)
        \/ (allow_ignored_dates /\ IsTimezoneTimeIgnored(z.StandardDate)))
    /\ (IsTimezoneTimeValid(z.DaylightDate)
        \/ (allow_ignored_dates /\ IsTimezoneTimeIgnored(z.DaylightDate)))
    /\ z.StandardName # UnterminatedName
    /\ z.DaylightName # UnterminatedName

\* [ok |-> the return value, tzt |-> the caller's SYSTEMTIME after the call]
\* the fourth occurrence made the final one without the look at day + 7
LocalTimeToRelativeTimezoneTime_FourthIsFinal(l, make_final_occurrence_if_last_occurrence, tzt0) ==
    IF ~IsSystemTimeValid_IgnoreDayOfWeek(l) THEN [ok |-> FALSE, tzt |-> tzt0]
    ELSE LET first == ((l.wDay - 1) \div 7) + 1
             occurrence ==
                 IF first = 4 /\ make_final_occurrence_if_last_occurrence
                 THEN 5 ELSE first
         IN  [ok |-> TRUE,
              tzt |-> [l EXCEPT !.wDay = occurrence,
                                !.wDayOfWeek = GetDayOfWeek(l.wDay, l.wMonth, l.wYear),
                                !.wYear = 0]]

LocalTimeToRelativeTimezoneTime(l, make_final_occurrence_if_last_occurrence, tzt0) ==
    IF ~IsSystemTimeValid_IgnoreDayOfWeek(l) THEN [ok |-> FALSE, tzt |-> tzt0]
    ELSE LET first == ((l.wDay - 1) \div 7) + 1
             occurrence ==
                 IF /\ first = 4
                    /\ ~IsDateValid(l.wDay + 7, l.wMonth, l.wYear)
                    /\ make_final_occurrence_if_last_occurrence
                 THEN 5 ELSE first
         IN  [ok |-> TRUE,
              tzt |-> [l EXCEPT !.wDay = occurrence,
                                !.wDayOfWeek = GetDayOfWeek(l.wDay, l.wMonth, l.wYear),
                                !.wYear = 0]]

\* the day left as computed, a day after the end of the month included
TimezoneTimeToLocalTime_DayAsComputed(t, tzt_year, local0) ==
    IF ~IsRelativeTimezoneTimeValid(t)
    THEN IF IsAbsoluteTimezoneTimeValid(t)
         THEN [ok |-> TRUE,
               local |-> [t EXCEPT !.wDayOfWeek = GetDayOfWeek(t.wDay, t.wMonth, t.wYear)]]
         ELSE [ok |-> FALSE, local |-> local0]
    ELSE IF ~IsYearValid(tzt_year) THEN [ok |-> FALSE, local |-> local0]
    ELSE LET first_day_of_week == GetDayOfWeek(1, t.wMonth, tzt_year)
             days_after_first_occurrence == (t.wDay - 1) * 7
             day1 == IF first_day_of_week <= t.wDayOfWeek
                     THEN (t.wDayOfWeek - first_day_of_week) + 1
                              + days_after_first_occurrence
                     ELSE (6 - first_day_of_week) + 1 + t.wDayOfWeek + 1
                              + days_after_first_occurrence
         IN  [ok |-> TRUE, local |-> [t EXCEPT !.wDay = day1, !.wYear = tzt_year]]

\* the year of the rule left in place
TimezoneTimeToLocalTime_YearOfRule(t, tzt_year, local0) ==
    IF ~IsRelativeTimezoneTimeValid(t)
    THEN IF IsAbsoluteTimezoneTimeValid(t)
         THEN [ok |-> TRUE,
               local |-> [t EXCEPT !.wDayOfWeek = GetDayOfWeek(t.wDay, t.wMonth, t.wYear)]]
         ELSE [ok |-> FALSE, local |-> local0]
    ELSE IF ~IsYearValid(tzt_year) THEN [ok |-> FALSE, local |-> local0]
    ELSE LET first_day_of_week == GetDayOfWeek(1, t.wMonth, tzt_year)
             days_after_first_occurrence == (t.wDay - 1) * 7
             day1 == IF first_day_of_week <= t.wDayOfWeek
                     THEN (t.wDayOfWeek - first_day_of_week) + 1
                              + days_after_first_occurrence
                     ELSE (6 - first_day_of_week) + 1 + t.wDayOfWeek + 1
                              + days_after_first_occurrence
             day == IF ~IsDateValid(day1, t.wMonth, tzt_year) THEN day1 - 7 ELSE day1
         IN  [ok |-> TRUE, local |-> [t EXCEPT !.wDay = day]]

\* [ok |-> the return value, local |-> the caller's SYSTEMTIME after the call]
TimezoneTimeToLocalTime(t, tzt_year, local0) ==
    IF ~IsRelativeTimezoneTimeValid(t)
    THEN IF IsAbsoluteTimezoneTimeValid(t)
         THEN [ok |-> TRUE,
               local |-> [t EXCEPT !.wDayOfWeek = GetDayOfWeek(t.wDay, t.wMonth, t.wYear)]]
         ELSE [ok |-> FALSE, local |-> local0]
    ELSE IF ~IsYearValid(tzt_year) THEN [ok |-> FALSE, local |-> local0]
    ELSE LET first_day_of_week == GetDayOfWeek(1, t.wMonth, tzt_year)
             days_after_first_occurrence == (t.wDay - 1) * 7
             day1 == IF first_day_of_week <= t.wDayOfWeek
                     THEN (t.wDayOfWeek - first_day_of_week) + 1
                              + days_after_first_occurrence
                     ELSE (6 - first_day_of_week) + 1 + t.wDayOfWeek + 1
                              + days_after_first_occurrence
             day == IF ~IsDateValid(day1, t.wMonth, tzt_year) THEN day1 - 7 ELSE day1
         IN  [ok |-> TRUE, local |-> [t EXCEPT !.wDay = day, !.wYear = tzt_year]]

CompareLocalTimeToTimezoneTime(l, t) ==
    CompareSystemTimes(l, TimezoneTimeToLocalTime(t, l.wYear, ZeroSystemTime).local)

(***************************************************************************)
(* GetTimezoneForYear.  The Windows settings it reads are the record o:    *)
(*   hasDynamic, hasForYear  whether kernel32 exports                      *)
(*                 GetDynamicTimeZoneInformation (>= Vista) and            *)
(*                 GetTimeZoneInformationForYear (>= Vista SP1)            *)
(*   currentFails  GetDynamicTimeZoneInformation / GetTimeZoneInformation  *)
(*                 returns TIME_ZONE_ID_INVALID                            *)
(*   current       the time zone information those two calls output        *)
(*   disabled      DynamicDaylightTimeDisabled (auto-DST is off)           *)
(*   split, before, after   GetTimeZoneInformationForYear outputs `before` *)
(*                 for a year below `split` and `after` from `split` on    *)
(*   failYears     the years for which GetTimeZoneInformationForYear fails *)
(*   apiError      the last-error code a failing WinAPI call sets          *)
(***************************************************************************)
TimeZoneInformationForYear(o, year) ==
    IF year < o.split THEN o.before ELSE o.after

\* [ok |-> the return value, tzi |-> the caller's tzi after the call,
\*  lastError |-> the last-error code after the call]
GetTimezoneForYear(o, tzi0, year, err0) ==
    IF ~IsYearValid(year)
    THEN [ok |-> FALSE, tzi |-> tzi0, lastError |-> ERROR_INVALID_TIME]
    ELSE IF o.hasDynamic
    THEN IF o.currentFails
         THEN [ok |-> FALSE, tzi |-> tzi0, lastError |-> o.apiError]
         ELSE IF o.hasForYear
         THEN IF year \in o.failYears
              THEN [ok |-> FALSE, tzi |-> tzi0, lastError |-> o.apiError]
              ELSE LET z == TimeZoneInformationForYear(o, year)
                   IN  [ok |-> TRUE,
                        tzi |-> IF o.disabled
                                THEN [z EXCEPT !.StandardBias = 0,
                                               !.DaylightBias = 0,
                                               !.StandardDate = ZeroSystemTime,
                                               !.DaylightDate = ZeroSystemTime,
                                               !.DaylightName = z.StandardName]
                                ELSE z,
                        lastError |-> err0]
         ELSE [ok |-> TRUE, tzi |-> o.current, lastError |-> err0]
    ELSE IF o.currentFails
         THEN [ok |-> FALSE, tzi |-> tzi0, lastError |-> o.apiError]
         ELSE [ok |-> TRUE, tzi |-> o.current, lastError |-> err0]

(***************************************************************************)
(* GetLocalTimeForTimezone.  The result is                                 *)
(*   [id |-> the return value, local_time |-> the caller's local_time      *)
(*    after the call, lastError |-> the last-error code after the call].   *)
(***************************************************************************)
\* `return false;` in a function that returns DWORD
FALSE_AS_DWORD == 0

\* the macro without its strict check
COPY_TO_local_time_AnyYear(newtime, id, year, strictMode, err0) ==
    [id |-> id, local_time |-> newtime, lastError |-> err0]

\* the macro: local_time = newtime; then the strict check, else the return
\* that follows the macro in the code
COPY_TO_local_time(newtime, id, year, strictMode, err0) ==
    IF strictMode /\ (newtime.wYear # year)
    THEN [id |-> TIME_ZONE_ID_INVALID, local_time |-> newtime,
          lastError |-> ERROR_NOT_SUPPORTED]
    ELSE [id |-> id, local_time |-> newtime, lastError |-> err0]

\* if( tzi.DaylightBias ) // DST is year round
IsDstYearRound_Always(z) == TRUE

IsDstYearRound(z) == z.DaylightBias # 0

\* the default of tzi_year
TargetYear(utc, year0) == IF year0 = 0 THEN utc.wYear ELSE year0

GetLocalTimeForTimezone(local_time0, z, utc, year0, strictMode, err0) ==
    LET year == TargetYear(utc, year0)
    IN
    IF ~IsYearValid(year)
    THEN [id |-> FALSE_AS_DWORD, local_time |-> local_time0,
          lastError |-> ERROR_INVALID_TIME]
    ELSE
    LET valid == IsTimezoneInfoValid(z, TRUE)
        unknown == SystemTimeSubtractMinutes(utc, z.Bias)
        standard == SystemTimeSubtractMinutes(utc, z.Bias + z.StandardBias)
        daylight == SystemTimeSubtractMinutes(utc, z.Bias + z.DaylightBias)
    IN
    IF ~valid \/ ~unknown.ok \/ ~standard.ok \/ ~daylight.ok
    THEN [id |-> TIME_ZONE_ID_INVALID, local_time |-> local_time0,
          lastError |-> ERROR_INVALID_TIME]
    ELSE
    LET local_time_if_unknown == unknown.st
        local_time_if_standard == standard.st
        local_time_if_daylight == daylight.st
    IN
    IF /\ strictMode
       /\ local_time_if_unknown.wYear # year
       /\ local_time_if_standard.wYear # year
       /\ local_time_if_daylight.wYear # year
    THEN [id |-> TIME_ZONE_ID_INVALID, local_time |-> local_time0,
          lastError |-> ERROR_NOT_SUPPORTED]
    ELSE
    LET s == TimezoneTimeToLocalTime(z.StandardDate, year, ZeroSystemTime)
        d == TimezoneTimeToLocalTime(z.DaylightDate, year, ZeroSystemTime)
    IN
    IF ~s.ok \/ ~d.ok
    THEN COPY_TO_local_time(local_time_if_unknown, TIME_ZONE_ID_UNKNOWN,
                            year, strictMode, err0)
    ELSE
    LET local_standard_start == s.local
        local_daylight_start == d.local
        is_standard_time_before_daylight_start ==
            CompareSystemTimes(local_time_if_standard, local_daylight_start) < 0
        is_daylight_time_before_standard_start ==
            CompareSystemTimes(local_time_if_daylight, local_standard_start) < 0
        cmp_standard_start_to_daylight_start ==
            CompareSystemTimes(local_standard_start, local_daylight_start)
    IN
    IF cmp_standard_start_to_daylight_start < 0
    THEN IF ~is_daylight_time_before_standard_start
            /\ is_standard_time_before_daylight_start
         THEN COPY_TO_local_time(local_time_if_standard, TIME_ZONE_ID_STANDARD,
                                 year, strictMode, err0)
         ELSE COPY_TO_local_time(local_time_if_daylight, TIME_ZONE_ID_DAYLIGHT,
                                 year, strictMode, err0)
    ELSE IF cmp_standard_start_to_daylight_start > 0
    THEN IF ~is_standard_time_before_daylight_start
            /\ is_daylight_time_before_standard_start
         THEN COPY_TO_local_time(local_time_if_daylight, TIME_ZONE_ID_DAYLIGHT,
                                 year, strictMode, err0)
         ELSE COPY_TO_local_time(local_time_if_standard, TIME_ZONE_ID_STANDARD,
                                 year, strictMode, err0)
    ELSE IF IsDstYearRound(z)
    THEN COPY_TO_local_time(local_time_if_daylight, TIME_ZONE_ID_DAYLIGHT,
                            year, strictMode, err0)
    ELSE COPY_TO_local_time(local_time_if_unknown, TIME_ZONE_ID_UNKNOWN,
                            year, strictMode, err0)


(***************************************************************************)
(* UTCTimeToLocalTime.  The caller's variables and the last-error code are *)
(* threaded through the attempts as a record                               *)
(*   [done, local_time, tzi_id, tzi, lastError, attempts]                  *)
(* where done says that the function has returned true and attempts lists, *)
(* in order, each GetTimezoneForYear call with what followed it:           *)
(*   [year, strict, provided, id]: the year asked for, whether the rule    *)
(*   set was provided and, if so, the mode and the result of the           *)
(*   GetLocalTimeForTimezone call made with it.                            *)
(***************************************************************************)
\* if( GetTimezoneForYear( tzi, year ) )
\* {
\*     tzi_id = GetLocalTimeForTimezone( local_time, tzi, utc_st, year, strict );
\*     if( tzi_id != TIME_ZONE_ID_INVALID )
\*         return true;
\* }
\* tzi_id = GetLocalTimeForTimezone( ... ); if( tzi_id != TIME_ZONE_ID_INVALID )
AfterGetLocalTimeForTimezone(c, year, strictMode, g, r) ==
    [done |-> r.id # TIME_ZONE_ID_INVALID,
     local_time |-> r.local_time,
     tzi_id |-> r.id,
     tzi |-> g.tzi,
     lastError |-> r.lastError,
     attempts |-> Append(c.attempts, [year |-> year, strict |-> strictMode,
                                      provided |-> TRUE, id |-> r.id])]

\* if( GetTimezoneForYear( tzi, year ) ) { ... }
AfterGetTimezoneForYear(utc, c, year, strictMode, g) ==
    IF ~g.ok
    THEN [c EXCEPT !.tzi = g.tzi,
                   !.lastError = g.lastError,
                   !.attempts = Append(@, [year |-> year, strict |-> strictMode,
                                           provided |-> FALSE,
                                           id |-> TIME_ZONE_ID_INVALID])]
    ELSE Only({AfterGetLocalTimeForTimezone(c, year, strictMode, g, r) :
                  r \in {GetLocalTimeForTimezone(c.local_time, g.tzi, utc, year,
                                                 strictMode, g.lastError)}})

Attempt(o, utc, c, year, strictMode) ==
    Only({AfterGetTimezoneForYear(utc, c, year, strictMode, g) :
             g \in {GetTimezoneForYear(o, c.tzi, year, c.lastError)}})

\* ( utc_st.wMonth == 1 ) && ( utc_st.wDay == 1 )
IsFirstDayOfYear(utc) == utc.wMonth = 1 /\ utc.wDay = 1

\* ( utc_st.wMonth == 12 ) && ( utc_st.wDay == 31 )
IsLastDayOfYear_Day30(utc) == utc.wMonth = 12 /\ utc.wDay = 30

IsLastDayOfYear(utc) == utc.wMonth = 12 /\ utc.wDay = 31

\* the end of the function, reached when no attempt returned true
ReturnFalse(c) ==
    [c EXCEPT !.lastError = IF @ = 0 THEN ERROR_INVALID_TIME ELSE @]

\* return true after a successful attempt, otherwise the end of the function
ReturnAfter(c) ==
    IF c.done THEN [ret |-> TRUE, c |-> c]
    ELSE [ret |-> FALSE, c |-> ReturnFalse(c)]

\* the second attempt of an edge case, made when the first one failed
NonStrictAttemptAfter(o, utc, c, year) ==
    IF c.done THEN [ret |-> TRUE, c |-> c]
    ELSE Only({ReturnAfter(c2) : c2 \in {Attempt(o, utc, c, year, FALSE)}})

\* the caller's variables on entry, and after SetLastError( 0 )
OnEntry(local_time0, tzi_id0, tzi0, err0) ==
    [done |-> FALSE, local_time |-> local_time0, tzi_id |-> tzi_id0,
     tzi |-> tzi0, lastError |-> err0, attempts |-> <<>>]

\* [ret |-> the return value] and the record of the caller's variables
UTCTimeToLocalTime(utc, local_time0, tzi_id0, tzi0, o, err0) ==
    IF ~IsSystemTimeValid(utc)
    THEN [ret |-> FALSE,
          c |-> OnEntry(local_time0, tzi_id0, tzi0, ERROR_INVALID_TIME)]
    ELSE
    LET current_year == utc.wYear
        previous_year == current_year - 1
        next_year == current_year + 1
    IN
    Only({IF IsFirstDayOfYear(utc)
          THEN Only({NonStrictAttemptAfter(o, utc, c1, current_year) :
                        c1 \in {Attempt(o, utc, c0, previous_year, TRUE)}})
          ELSE Only({IF IsLastDayOfYear(utc)
                     THEN NonStrictAttemptAfter(o, utc, c1, next_year)
                     ELSE ReturnAfter(c1) :
                        c1 \in {Attempt(o, utc, c0, current_year, TRUE)}}) :
             c0 \in {OnEntry(local_time0, tzi_id0, tzi0, 0)}})

(***************************************************************************)
(* iso8601.hpp / iso8601.cpp: the output classes DayDateTime and TimeInfo  *)
(* and the ISO8601 functions that write to them.  A std::string is a       *)
(* string; a DayDateTime pointer of a TimeInfo is the name of the object   *)
(* it points to, "this" (the base subobject) or "_alternate_time_info".    *)
(***************************************************************************)
\* TimeFormat::Clear
TimeFormat_Clear ==
    [usa_style |-> FALSE, day_string_with_abbreviation |-> FALSE,
     time_string_with_milliseconds |-> FALSE]

\* ZeroMemory( &tm, sizeof( tm ) )
ZeroTm ==
    [tm_sec |-> 0, tm_min |-> 0, tm_hour |-> 0, tm_mday |-> 0, tm_mon |-> 0,
     tm_year |-> 0, tm_wday |-> 0, tm_yday |-> 0, tm_isdst |-> 0]

\* DayDateTime::Clear keeps no member: the object after the call
DayDateTime_Clear ==
    [valid |-> FALSE, ft |-> I64Zero, st |-> ZeroSystemTime, tm |-> ZeroTm,
     bias |-> 0, day |-> "", date |-> "", time |-> "", offset |-> "",
     format |-> TimeFormat_Clear]

\* the alternate time is kept although Clear is called
TimeInfo_Clear_BaseOnly(t, also_clear_base_subobjects) ==
    [valid |-> FALSE, timestamp |-> "", utc |-> "this",
     local |-> "_alternate_time_info", prefer_local_time |-> FALSE,
     alternate |-> t.alternate,
     base |-> IF also_clear_base_subobjects THEN DayDateTime_Clear ELSE t.base]

\* TimeInfo::Clear: the TimeInfo t after the call
TimeInfo_Clear(t, also_clear_base_subobjects) ==
    [valid |-> FALSE, timestamp |-> "", utc |-> "this",
     local |-> "_alternate_time_info", prefer_local_time |-> FALSE,
     alternate |-> DayDateTime_Clear,
     base |-> IF also_clear_base_subobjects THEN DayDateTime_Clear ELSE t.base]

\* TimeInfo::TimeInfo(): the base subobject has cleared itself
TimeInfo_Default ==
    TimeInfo_Clear([base |-> DayDateTime_Clear, alternate |-> DayDateTime_Clear],
                   FALSE)

InitializeLocalTimePref(t, v_prefer_local_time) ==
    [t EXCEPT !.utc = IF v_prefer_local_time THEN "_alternate_time_info" ELSE "this",
              !.local = IF v_prefer_local_time THEN "this" ELSE "_alternate_time_info",
              !.prefer_local_time = v_prefer_local_time]

\* *p, and the TimeInfo after *p = d
Pointee(t, p) == IF p = "this" THEN t.base ELSE t.alternate
Assigned(t, p, d) ==
    IF p = "this" THEN [t EXCEPT !.base = d] ELSE [t EXCEPT !.alternate = d]

\* the pointers are swapped, the data is not
PreferLocalTime_PointersOnly(t, new_pref) ==
    IF t.prefer_local_time = new_pref THEN t
    ELSE InitializeLocalTimePref(t, new_pref)

\* TimeInfo::PreferLocalTime; std::swap copies a to a temporary, b to a, the
\* temporary to b
PreferLocalTime(t, new_pref) ==
    IF t.prefer_local_time = new_pref THEN t
    ELSE LET s == InitializeLocalTimePref(t, new_pref)
             tmp == Pointee(s, s.local)
         IN  Assigned(Assigned(s, s.local, Pointee(s, s.utc)), s.utc, tmp)

\* the stream output of n with setw( w ) and fill( '0' )
RECURSIVE setw(_, _)
setw(w, n) ==
    IF w > 1 /\ n < 10 ^ (w - 1) THEN "0" \o setw(w - 1, n) ELSE ToString(n)

GetDayStringEnglish(format, day_of_the_week) ==
    LET abbreviated == <<"Sun", "Mon", "Tue", "Wed", "Thu", "Fri", "Sat">>
        full == <<"Sunday", "Monday", "Tuesday", "Wednesday", "Thursday",
                  "Friday", "Saturday">>
    IN  IF day_of_the_week \notin 0..6 THEN ""
        ELSE IF format.day_string_with_abbreviation
             THEN abbreviated[day_of_the_week + 1]
             ELSE full[day_of_the_week + 1]

GetDateString(st) ==
    (IF st.wYear > 9999 THEN "+" ELSE "") \o setw(4, st.wYear)
        \o "-" \o setw(2, st.wMonth) \o "-" \o setw(2, st.wDay)

GetDateStringUSA(st) ==
    ToString(st.wMonth) \o "/" \o ToString(st.wDay) \o "/" \o ToString(st.wYear)

GetTimeString(format, st) ==
    setw(2, st.wHour) \o ":" \o setw(2, st.wMinute) \o ":" \o setw(2, st.wSecond)
        \o (IF format.time_string_with_milliseconds
            THEN "." \o setw(3, st.wMilliseconds) ELSE "")

GetTimeStringUSA(format, st) ==
    LET st_12hr == IF st.wHour = 0 THEN 12
                   ELSE IF st.wHour > 12 THEN st.wHour - 12 ELSE st.wHour
    IN  ToString(st_12hr) \o ":" \o setw(2, st.wMinute) \o ":" \o setw(2, st.wSecond)
            \o (IF format.time_string_with_milliseconds
                THEN "." \o setw(3, st.wMilliseconds) ELSE "")
            \o " " \o (IF st.wHour < 12 THEN "AM" ELSE "PM")

abs(n) == IF n < 0 THEN -n ELSE n

GetUTCOffsetString(bias) ==
    IF bias = 0 THEN "Z"
    ELSE (IF bias > 0 THEN "-" ELSE "+") \o setw(2, abs(bias) \div 60)
             \o ":" \o setw(2, abs(bias) % 60)

GetUTCOffsetStringUSA(bias) ==
    IF bias = 0 THEN "(UTC)"
    ELSE "(UTC" \o (IF bias > 0 THEN "-" ELSE "+") \o setw(2, abs(bias) \div 60)
             \o ":" \o setw(2, abs(bias) % 60) \o ")"

GetUTCTimestampString(format, utc) ==
    LET date == GetDateString(utc)
        time == GetTimeString(format, utc)
    IN  IF date = "" \/ time = "" THEN ""
        ELSE date \o "T" \o time
                 \o (IF ~format.time_string_with_milliseconds
                     THEN "." \o setw(3, utc.wMilliseconds) ELSE "")
                 \o "Z"

\* [ok |-> the return value, ddt |-> the DayDateTime after the call]
GetStrings(format, d) ==
    LET w == [d EXCEPT !.day = GetDayStringEnglish(format, d.st.wDayOfWeek),
                       !.date = GetDateString(d.st),
                       !.time = GetTimeString(format, d.st),
                       !.offset = GetUTCOffsetString(d.bias)]
    IN  [ok |-> w.day # "" /\ w.date # "" /\ w.time # "" /\ w.offset # "",
         ddt |-> w]

GetStringsUSA(format, d) ==
    LET w == [d EXCEPT !.day = GetDayStringEnglish(format, d.st.wDayOfWeek),
                       !.date = GetDateStringUSA(d.st),
                       !.time = GetTimeStringUSA(format, d.st),
                       !.offset = GetUTCOffsetStringUSA(d.bias)]
    IN  [ok |-> w.day # "" /\ w.date # "" /\ w.time # "" /\ w.offset # "",
         ddt |-> w]

\* [ok |-> the return value, tm |-> the caller's struct tm after the call]
SystemTimeToTm(st, st_isdst, tm0) ==
    IF ~IsSystemTimeValid(st) THEN [ok |-> FALSE, tm |-> tm0]
    ELSE LET acc == <<0, 31, 59, 90, 120, 151, 181, 212, 243, 273, 304, 334>>
             tm_mon == st.wMonth - 1
             yday == acc[tm_mon + 1] + st.wDay - 1
         IN  [ok |-> TRUE,
              tm |-> [tm_sec |-> st.wSecond, tm_min |-> st.wMinute,
                      tm_hour |-> st.wHour, tm_mday |-> st.wDay,
                      tm_mon |-> tm_mon, tm_year |-> st.wYear - 1900,
                      tm_wday |-> st.wDayOfWeek,
                      tm_yday |-> IF IsLeapYear(st.wYear) /\ tm_mon > 1
                                  THEN yday + 1 ELSE yday,
                      tm_isdst |-> IF st_isdst THEN 1 ELSE 0]]

\* the failure exit of GetTimeInfoLocalOrUTC: ddt.Clear(); return false;
ClearedAndFalse(err) ==
    [ret |-> FALSE, ddt |-> DayDateTime_Clear, lastError |-> err]

\* the tail of GetTimeInfoLocalOrUTC, from SystemTimeToTm on
GetTimeInfoStrings(iso, d, is_daylight_saving_time, err) ==
    Only({IF ~totm.ok THEN ClearedAndFalse(err)
          ELSE Only({IF ~strings.ok THEN ClearedAndFalse(err)
                     ELSE [ret |-> TRUE,
                           ddt |-> [strings.ddt EXCEPT !.format = iso.format,
                                                       !.valid = TRUE],
                           lastError |-> err] :
                       strings \in {IF iso.format.usa_style
                                    THEN GetStringsUSA(iso.format,
                                                       [d EXCEPT !.tm = totm.tm])
                                    ELSE GetStrings(iso.format,
                                                    [d EXCEPT !.tm = totm.tm])}}) :
            totm \in {SystemTimeToTm(d.st, is_daylight_saving_time, d.tm)}})

\* the local-time branch once UTCTimeToLocalTime has returned r
GetTimeInfoLocal(iso, d, utc_ft, r) ==
    IF ~r.ret THEN ClearedAndFalse(r.c.lastError)
    ELSE IF r.c.tzi_id \notin {TIME_ZONE_ID_DAYLIGHT, TIME_ZONE_ID_STANDARD,
                                TIME_ZONE_ID_UNKNOWN}
    THEN ClearedAndFalse(r.c.lastError)
    ELSE Only({Only({IF ~sub.ok THEN ClearedAndFalse(r.c.lastError)
                     ELSE Only({GetTimeInfoStrings(
                                    iso, d1,
                                    r.c.tzi_id = TIME_ZONE_ID_DAYLIGHT,
                                    r.c.lastError) :
                                  d1 \in {[d EXCEPT !.st = r.c.local_time,
                                                    !.bias = bias,
                                                    !.ft = sub.ft]}}) :
                       sub \in {FileTimeSubtractMinutes(utc_ft, bias)}}) :
                 bias \in {IF r.c.tzi_id = TIME_ZONE_ID_DAYLIGHT
                           THEN r.c.tzi.Bias + r.c.tzi.DaylightBias
                           ELSE IF r.c.tzi_id = TIME_ZONE_ID_STANDARD
                           THEN r.c.tzi.Bias + r.c.tzi.StandardBias
                           ELSE r.c.tzi.Bias}})

\* ISO8601::GetTimeInfoLocalOrUTC: [ret |-> the return value, ddt |-> the
\* DayDateTime after the call, lastError |-> the thread's last-error code]
GetTimeInfoLocalOrUTC(iso, utc_ft, convert_to_local_time, o, err0) ==
    IF ~IsFileTimeValid(utc_ft) THEN ClearedAndFalse(err0)
    ELSE Only({IF ~tost.ok THEN ClearedAndFalse(err0)
               ELSE IF convert_to_local_time
               THEN Only({GetTimeInfoLocal(iso, DayDateTime_Clear, utc_ft, r) :
                            r \in {UTCTimeToLocalTime(tost.st, ZeroSystemTime, 0,
                                                      ZeroTzi, o, err0)}})
               ELSE Only({GetTimeInfoStrings(iso, d1, FALSE, err0) :
                            d1 \in {[DayDateTime_Clear EXCEPT !.ft = utc_ft,
                                                             !.st = tost.st,
                                                             !.bias = 0]}}) :
                 tost \in {FileTimeToSystemTime(utc_ft)}})

\* the conversions of utc_ft that GetTimeInfo chooses from: c[TRUE] is
\* GetTimeInfoLocalOrUTC( _, utc_ft, true ), c[FALSE] is
\* GetTimeInfoLocalOrUTC( _, utc_ft, false ); each is [ret, ddt, lastError]
GetTimeInfoLocalAndUTC(iso, utc_ft, o, err0) ==
    [convert_to_local_time \in BOOLEAN |->
        GetTimeInfoLocalOrUTC(iso, utc_ft, convert_to_local_time, o, err0)]

\* ISO8601::GetTimeInfo( TimeInfo &ti, const FILETIME &utc_ft ), c being the
\* conversions of utc_ft: [ret |-> the return value, ti |-> the TimeInfo
\* after the call, lastError].  The conversion to *ti._local is c[TRUE]; the
\* one to *ti._utc is c[FALSE], made only if the first succeeds; it leaves
\* the last-error code as the first left it.
GetTimeInfo(iso, t0, c) ==
    Only({IF ~c[TRUE].ret \/ ~c[FALSE].ret
          THEN [ret |-> FALSE,
                ti |-> TimeInfo_Clear(
                           Assigned(Assigned(t1, t1.local, c[TRUE].ddt), t1.utc,
                                    IF c[TRUE].ret THEN c[FALSE].ddt
                                    ELSE Pointee(t1, t1.utc)), TRUE),
                lastError |-> c[TRUE].lastError]
          ELSE Only({IF t3.timestamp = ""
                     THEN [ret |-> FALSE, ti |-> TimeInfo_Clear(t3, TRUE),
                           lastError |-> c[TRUE].lastError]
                     ELSE [ret |-> TRUE, ti |-> [t3 EXCEPT !.valid = TRUE],
                           lastError |-> c[TRUE].lastError] :
                  t3 \in {[t2 EXCEPT !.timestamp =
                              GetUTCTimestampString(iso.format,
                                                    Pointee(t2, t2.utc).st)] :
                          t2 \in {Assigned(Assigned(t1, t1.local, c[TRUE].ddt),
                                           t1.utc, c[FALSE].ddt)}}}) :
            t1 \in {InitializeLocalTimePref(TimeInfo_Clear(t0, TRUE),
                                            iso.prefer_local_time)}})

\* ISO8601::GetTimeInfo( DayDateTime &ddt, const FILETIME &utc_ft ):
\* return GetTimeInfoLocalOrUTC( ddt, utc_ft, prefer_local_time );
GetTimeInfo_DayDateTime(iso, c) == c[iso.prefer_local_time]

\* ISO8601::ISO8601() with its default arguments
ISO8601_Default ==
    [prefer_local_time |-> TRUE, dst_start_year |-> 1967, ignore_dst |-> FALSE,
     format |-> TimeFormat_Clear]

\* no ISO8601 function is called
NoISO8601Call ==
    /\ iso8601 = ISO8601_Default
    /\ ti = TimeInfo_Default
    /\ ddt = DayDateTime_Clear

(***************************************************************************)
(* The values the callers pass.                                            *)
(***************************************************************************)
\* the years after 2014 that UTC times are drawn from
YearSpan == 2

\* a valid SYSTEMTIME as GetSystemTime or FileTimeToSystemTime fills it in
ValidTime(y, mo, d, h, mi, sec, ms) ==
    MkSystemTime(y, mo, (DaysFromCivil(d, mo, y) + 1) % 7, d, h, mi, sec, ms)

\* a relative transition: the occ-th dow of month mo at h:00
Rel(mo, dow, occ, h) == MkSystemTime(0, mo, dow, occ, h, 0, 0, 0)

\* an absolute transition; wDayOfWeek is ignored
Abs(y, mo, d, h) == MkSystemTime(y, mo, 0, d, h, 0, 0, 0)

UtcYears == {MinYear, MaxYear} \cup (2014 .. 2014 + YearSpan)

UtcMonthDays == {<<1, 1>>, <<12, 31>>, <<3, 8>>, <<11, 1>>, <<7, 1>>}

UtcTimesOfDay == {<<0, 30, 0, 0>>, <<6, 59, 59, 999>>, <<7, 0, 0, 0>>,
                  <<13, 30, 0, 0>>, <<23, 30, 0, 0>>}

UtcTimes ==
    {ValidTime(y, md[1], md[2], hm[1], hm[2], hm[3], hm[4]) :
        y \in UtcYears, md \in UtcMonthDays, hm \in UtcTimesOfDay}

\* times that IsSystemTimeValid rejects: a wrong day of the week, no date
InvalidUtcTimes ==
    {[ValidTime(2015, 7, 1, 12, 0, 0, 0) EXCEPT !.wDayOfWeek = (@ + 1) % 7],
     ZeroSystemTime}

\* United States Eastern: second Sunday in March 02:00 -> daylight, first
\* Sunday in November 02:00 -> standard
USEastern == MkTzi(300, "EST", Rel(11, 0, 1, 2), 0, "EDT", Rel(3, 0, 2, 2), -60)
\* southern hemisphere, ahead of UTC
Sydney == MkTzi(-600, "AEST", Rel(4, 0, 1, 3), 0, "AEDT", Rel(10, 0, 1, 2), -60)
\* one hour behind UTC, northern and southern rules
Azores == MkTzi(60, "AZOT", Rel(10, 0, 5, 1), 0, "AZOST", Rel(3, 0, 5, 0), -60)
SouthWest == MkTzi(60, "SWT", Rel(2, 0, 3, 0), 0, "SWST", Rel(10, 0, 3, 0), -60)
\* one hour ahead of UTC
Berlin == MkTzi(-60, "CET", Rel(10, 0, 5, 3), 0, "CEST", Rel(3, 0, 5, 2), -60)
\* no daylight saving time: both dates are the ignored sentinel
Lagos == MkTzi(-60, "WAT", ZeroSystemTime, 0, "WAT", ZeroSystemTime, 0)
CapeVerde == MkTzi(60, "CVT", ZeroSystemTime, 0, "CVT", ZeroSystemTime, 0)
\* the two transitions coincide
YearRound == MkTzi(-180, "S", Rel(1, 1, 1, 0), 0, "D", Rel(1, 1, 1, 0), -60)
Coincident == MkTzi(-180, "S", Rel(1, 1, 1, 0), 0, "D", Rel(1, 1, 1, 0), 0)
\* absolute transition dates, and a StandardBias
Absolute2015 == MkTzi(120, "S", Abs(2015, 11, 1, 2), 30, "D", Abs(2015, 3, 8, 2), -60)
\* the widest biases AreTimezoneBiasesValid lets through, and one beyond
DayBehind == MkTzi(1380, "S", Rel(11, 0, 1, 2), 60, "D", Rel(3, 0, 2, 2), 0)
DayAhead == MkTzi(-1380, "S", Rel(11, 0, 1, 2), 0, "D", Rel(3, 0, 2, 2), -60)
TooFar == MkTzi(1380, "S", Rel(11, 0, 1, 2), 0, "D", Rel(3, 0, 2, 2), 61)

Zones == {USEastern, Sydney, Azores, SouthWest, Berlin, Lagos, CapeVerde,
          YearRound, Coincident, Absolute2015, DayBehind, DayAhead, TooFar}

\* the rule sets of two consecutive eras: the same, or changed at the split
ZoneEras ==
    {<<z, z>> : z \in Zones}
        \cup {<<Lagos, CapeVerde>>, <<CapeVerde, Lagos>>, <<Azores, CapeVerde>>,
              <<Berlin, Azores>>, <<SouthWest, Azores>>, <<Azores, SouthWest>>}

MkOs(dyn, forYear, fails, dis, era, split, failYears) ==
    [hasDynamic |-> dyn, hasForYear |-> forYear, currentFails |-> fails,
     current |-> era[2], disabled |-> dis, split |-> split,
     before |-> era[1], after |-> era[2], failYears |-> failYears,
     apiError |-> ERROR_FROM_WINAPI]

\* the year from which GetTimeZoneInformationForYear outputs the later era
SplitYear == 2014 + 1

\* Vista SP1 and later; Vista; before Vista
Providers ==
    {MkOs(TRUE, TRUE, FALSE, dis, era, SplitYear, fy) :
        dis \in BOOLEAN, era \in ZoneEras,
        fy \in {{}, {SplitYear - 1}, {SplitYear}}}
    \cup {MkOs(TRUE, FALSE, fails, FALSE, <<z, z>>, SplitYear, {}) :
            fails \in BOOLEAN, z \in {USEastern, Lagos}}
    \cup {MkOs(FALSE, FALSE, fails, FALSE, <<z, z>>, SplitYear, {}) :
            fails \in BOOLEAN, z \in {USEastern, Lagos}}

\* the last-error code the thread holds before the call
StaleErrors == {ERROR_SUCCESS, ERROR_FROM_WINAPI}

(***************************************************************************)
(* Specification Spec: a caller of UTCTimeToLocalTime, as in               *)
(* timezone_example.cpp: zeroed out-parameters, one call.                  *)
(***************************************************************************)
\* no FileTime function is called
NoFileTimeCall ==
    /\ filetime = I64Zero
    /\ ft_before = I64Zero
    /\ n_intervals = I64Zero
    /\ n_minutes = LongLong(0)
    /\ build = "wrap"

NoCall ==
    /\ NoFileTimeCall
    /\ NoISO8601Call
    /\ tzi_year = 0
    /\ strict = FALSE
    /\ local = ZeroSystemTime
    /\ flag = FALSE
    /\ tzt = ZeroSystemTime

Init ==
    /\ pc = "ready"
    /\ op = "UTCTimeToLocalTime"
    /\ utc_st \in UtcTimes \cup InvalidUtcTimes
    /\ os \in Providers
    /\ tzi = ZeroTzi
    /\ local_time = ZeroSystemTime
    /\ tzi_id = 0
    /\ ret = FALSE
    /\ lastError \in StaleErrors
    /\ attempts = <<>>
    /\ NoCall

CallUTCTimeToLocalTime ==
    /\ pc = "ready"
    /\ op = "UTCTimeToLocalTime"
    /\ \E r \in {UTCTimeToLocalTime(utc_st, local_time, tzi_id, tzi, os, lastError)} :
           /\ ret' = r.ret
           /\ local_time' = r.c.local_time
           /\ tzi_id' = r.c.tzi_id
           /\ tzi' = r.c.tzi
           /\ lastError' = r.c.lastError
           /\ attempts' = r.c.attempts
    /\ pc' = "done"
    /\ UNCHANGED <<op, utc_st, os, tzi_year, strict, local, flag, tzt>>
    /\ UNCHANGED FileTimeVars
    /\ UNCHANGED ISO8601Vars

Next == CallUTCTimeToLocalTime

Spec == Init /\ [][Next]_vars

(***************************************************************************)
(* Specification SpecResolver: a caller of GetLocalTimeForTimezone with a  *)
(* rule set, a UTC time, a year and a mode of its own choice.              *)
(***************************************************************************)
\* rule sets IsTimezoneInfoValid rejects, one with a single ignored date,
\* and biases at the ends of the 32-bit range
BadDate == MkTzi(300, "S", Rel(13, 0, 1, 2), 0, "D", Rel(3, 0, 2, 2), -60)
BadName == MkTzi(300, UnterminatedName, Rel(11, 0, 1, 2), 0, "D", Rel(3, 0, 2, 2), -60)
HalfIgnored == MkTzi(-60, "S", Rel(11, 0, 1, 2), 30, "D", ZeroSystemTime, -60)
AbsoluteSame == MkTzi(0, "S", Abs(2015, 7, 1, 0), 0, "D", Abs(2015, 7, 1, 0), -60)
ExtremeBiases ==
    {MkTzi(b, "S", ZeroSystemTime, sb, "D", ZeroSystemTime, db) :
        b \in {LONG_MIN, LONG_MAX, -max_diff - 1},
        sb \in {LONG_MIN, 0}, db \in {LONG_MAX, 0}}
    \cup {MkTzi(0, "S", ZeroSystemTime, LONG_MIN, "D", ZeroSystemTime, LONG_MAX),
          MkTzi(-1, "S", ZeroSystemTime, LONG_MAX, "D", ZeroSystemTime, 0),
          MkTzi(1, "S", ZeroSystemTime, 0, "D", ZeroSystemTime, LONG_MIN)}

ResolverZones ==
    Zones \cup {BadDate, BadName, HalfIgnored, AbsoluteSame} \cup ExtremeBiases

\* the tzi_year arguments: the default, the years around the UTC year, and
\* the years next to the supported range
YearArguments(utc) ==
    {y \in {0, utc.wYear - 1, utc.wYear, utc.wYear + 1, MinYear - 1, MaxYear + 1} :
        y >= 0}

\* the first instant after January 1 and the last before December 31
NearYearEndTimes ==
    {ValidTime(y, 1, 2, 0, 0, 0, 0) : y \in UtcYears}
        \cup {ValidTime(y, 12, 30, 23, 59, 59, 999) : y \in UtcYears}

InitResolver ==
    /\ NoFileTimeCall
    /\ NoISO8601Call
    /\ pc = "ready"
    /\ op = "GetLocalTimeForTimezone"
    /\ utc_st \in UtcTimes \cup NearYearEndTimes \cup InvalidUtcTimes
    /\ os = MkOs(FALSE, FALSE, FALSE, FALSE, <<ZeroTzi, ZeroTzi>>, SplitYear, {})
    /\ tzi \in ResolverZones
    /\ tzi_year \in YearArguments(utc_st)
    /\ strict \in BOOLEAN
    /\ local_time = ZeroSystemTime
    /\ tzi_id = 0
    /\ ret = FALSE
    /\ lastError \in StaleErrors
    /\ attempts = <<>>
    /\ local = ZeroSystemTime
    /\ flag = FALSE
    /\ tzt = ZeroSystemTime

CallGetLocalTimeForTimezone ==
    /\ pc = "ready"
    /\ op = "GetLocalTimeForTimezone"
    /\ \E r \in {GetLocalTimeForTimezone(local_time, tzi, utc_st, tzi_year,
                                         strict, lastError)} :
           /\ tzi_id' = r.id
           /\ local_time' = r.local_time
           /\ lastError' = r.lastError
    /\ pc' = "done"
    /\ UNCHANGED <<op, utc_st, os, tzi, tzi_year, strict, ret, attempts,
                   local, flag, tzt>>
    /\ UNCHANGED FileTimeVars
    /\ UNCHANGED ISO8601Vars

NextResolver == CallGetLocalTimeForTimezone

SpecResolver == InitResolver /\ [][NextResolver]_vars

(***************************************************************************)
(* Specification SpecRoundTrip: a caller turns a date into a relative      *)
(* transition with LocalTimeToRelativeTimezoneTime and back into a date    *)
(* of the same year with TimezoneTimeToLocalTime.                          *)
(***************************************************************************)
\* century years with and without a leap day, next to the UTC years
DateYears == UtcYears \cup {2000, 2100}

DateTimesOfDay == {<<0, 0, 0, 0>>, <<2, 0, 0, 0>>, <<23, 59, 59, 999>>}

\* every day number a month field can hold, the days no month has included
Dates ==
    {[MkSystemTime(y, mo, 0, d, t[1], t[2], t[3], t[4])
         EXCEPT !.wDayOfWeek = IF IsDateValid(d, mo, y)
                               THEN GetDayOfWeek(d, mo, y) ELSE 0] :
        y \in DateYears, mo \in 1..12, d \in 1..31, t \in DateTimesOfDay}

InitRoundTrip ==
    /\ NoFileTimeCall
    /\ NoISO8601Call
    /\ pc = "ready"
    /\ op = "RoundTrip"
    /\ local \in Dates
    /\ flag \in BOOLEAN
    /\ tzt = ZeroSystemTime
    /\ local_time = ZeroSystemTime
    /\ ret = FALSE
    /\ utc_st = ZeroSystemTime
    /\ os = MkOs(FALSE, FALSE, FALSE, FALSE, <<ZeroTzi, ZeroTzi>>, SplitYear, {})
    /\ tzi = ZeroTzi
    /\ tzi_year = 0
    /\ strict = FALSE
    /\ tzi_id = 0
    /\ lastError = ERROR_SUCCESS
    /\ attempts = <<>>

CallLocalTimeToRelativeTimezoneTime ==
    /\ pc = "ready"
    /\ op = "RoundTrip"
    /\ \E r \in {LocalTimeToRelativeTimezoneTime(local, flag, tzt)} :
           /\ tzt' = r.tzt
           /\ ret' = r.ok
           /\ pc' = IF r.ok THEN "relative" ELSE "done"
    /\ UNCHANGED <<op, utc_st, os, tzi, tzi_year, strict, local_time, tzi_id,
                   lastError, attempts, local, flag>>
    /\ UNCHANGED FileTimeVars
    /\ UNCHANGED ISO8601Vars

CallTimezoneTimeToLocalTime ==
    /\ pc = "relative"
    /\ op = "RoundTrip"
    /\ \E r \in {TimezoneTimeToLocalTime(tzt, local.wYear, local_time)} :
           /\ local_time' = r.local
           /\ ret' = r.ok
    /\ pc' = "done"
    /\ UNCHANGED <<op, utc_st, os, tzi, tzi_year, strict, tzi_id, lastError,
                   attempts, local, flag, tzt>>
    /\ UNCHANGED FileTimeVars
    /\ UNCHANGED ISO8601Vars

NextRoundTrip ==
    \/ CallLocalTimeToRelativeTimezoneTime
    \/ CallTimezoneTimeToLocalTime

SpecRoundTrip == InitRoundTrip /\ [][NextRoundTrip]_vars

(***************************************************************************)
(* What the claims speak of.                                               *)
(***************************************************************************)
Returned(f) == pc = "done" /\ op = f

\* utc - l in minutes (the two times are at most a few days apart)
MinutesFrom(l, utc) ==
    (DaysFromCivil(utc.wDay, utc.wMonth, utc.wYear)
        - DaysFromCivil(l.wDay, l.wMonth, l.wYear)) * MinutesPerDay
    + (utc.wHour * 60 + utc.wMinute) - (l.wHour * 60 + l.wMinute)

\* l is a valid time that lies exactly `bias` minutes before utc
IsUtcMinus(l, utc, bias) ==
    /\ IsSystemTimeValid(l)
    /\ MinutesFrom(l, utc) = bias
    /\ l.wSecond = utc.wSecond
    /\ l.wMilliseconds = utc.wMilliseconds

\* the bias of the rule set z that the TIME_ZONE_ID id names
ActiveBias(z, id) ==
    IF id = TIME_ZONE_ID_STANDARD THEN z.Bias + z.StandardBias
    ELSE IF id = TIME_ZONE_ID_DAYLIGHT THEN z.Bias + z.DaylightBias
    ELSE z.Bias

LastAttempt == attempts[Len(attempts)]

\* C1: whenever UTCTimeToLocalTime returns true, tzi_id is UNKNOWN, STANDARD
\* or DAYLIGHT (never INVALID) and local_time is utc_st minus the active bias
\* of the rule set it outputs: Bias for UNKNOWN, Bias + StandardBias for
\* STANDARD, Bias + DaylightBias for DAYLIGHT.
C1_LocalTimeIsUtcMinusActiveBias ==
    (Returned("UTCTimeToLocalTime") /\ ret) =>
        /\ tzi_id \in {TIME_ZONE_ID_UNKNOWN, TIME_ZONE_ID_STANDARD,
                       TIME_ZONE_ID_DAYLIGHT}
        /\ IsUtcMinus(local_time, utc_st, ActiveBias(tzi, tzi_id))

\* a conversion that returned true in daylight time, with a DaylightBias
C1_Witness ==
    /\ Returned("UTCTimeToLocalTime") /\ ret
    /\ tzi_id = TIME_ZONE_ID_DAYLIGHT
    /\ tzi.DaylightBias # 0
    /\ local_time.wYear # utc_st.wYear

\* the attempts UTCTimeToLocalTime may make for a UTC date, in order
AttemptPlan(utc) ==
    IF utc.wMonth = 1 /\ utc.wDay = 1
    THEN <<[year |-> utc.wYear - 1, strict |-> TRUE],
           [year |-> utc.wYear, strict |-> FALSE]>>
    ELSE IF utc.wMonth = 12 /\ utc.wDay = 31
    THEN <<[year |-> utc.wYear, strict |-> TRUE],
           [year |-> utc.wYear + 1, strict |-> FALSE]>>
    ELSE <<[year |-> utc.wYear, strict |-> TRUE]>>

\* C2: UTCTimeToLocalTime tries rule sets in a fixed order and stops at the
\* first attempt whose result is not INVALID: January 1: year-1 strict, then
\* the current year non-strict; December 31: the current year strict, then
\* year+1 non-strict; any other date: one attempt, the current year, strict.
C2_AttemptsFollowThePlan ==
    (Returned("UTCTimeToLocalTime") /\ IsSystemTimeValid(utc_st)) =>
        LET plan == AttemptPlan(utc_st)
            n == Len(attempts)
        IN  /\ n >= 1 /\ n <= Len(plan)
            /\ \A i \in 1..n :
                  /\ attempts[i].year = plan[i].year
                  /\ attempts[i].strict = plan[i].strict
                  /\ (i < n => attempts[i].id = TIME_ZONE_ID_INVALID)
            /\ (n < Len(plan) => attempts[n].id # TIME_ZONE_ID_INVALID)
            /\ (ret <=> attempts[n].id # TIME_ZONE_ID_INVALID)

\* December 31: the strict attempt with the current year failed and the
\* non-strict attempt with the next year was made and succeeded
C2_Witness ==
    /\ Returned("UTCTimeToLocalTime") /\ ret
    /\ utc_st.wMonth = 12 /\ utc_st.wDay = 31
    /\ Len(attempts) = 2
    /\ attempts[1].provided /\ attempts[1].id = TIME_ZONE_ID_INVALID
    /\ attempts[2].year = utc_st.wYear + 1 /\ ~attempts[2].strict

\* C3 as stated: whenever UTCTimeToLocalTime succeeds, local_time.wYear is
\* the year passed to the provider in the attempt that succeeded.
C3_LocalYearIsRequestedYear ==
    (Returned("UTCTimeToLocalTime") /\ ret) =>
        local_time.wYear = LastAttempt.year

\* C3 amended: after a success in a strict attempt local_time.wYear is the
\* year requested in that attempt; after a success in the non-strict
\* fallback it is that year or the year of the strict attempt before it.  A
\* local time in the year after the UTC year comes from the December 31
\* next-year fallback.
C3_LocalYearIsAnAttemptedYear ==
    (Returned("UTCTimeToLocalTime") /\ ret) =>
        /\ LastAttempt.strict => local_time.wYear = LastAttempt.year
        /\ ~LastAttempt.strict =>
              /\ Len(attempts) = 2
              /\ local_time.wYear \in {attempts[1].year, attempts[2].year}
        /\ local_time.wYear = utc_st.wYear + 1 =>
              /\ utc_st.wMonth = 12 /\ utc_st.wDay = 31
              /\ Len(attempts) = 2
              /\ LastAttempt.year = utc_st.wYear + 1

\* 2014-12-31T23:30 UTC in a zone ahead of UTC: local year 2015, reached
\* through the next-year fallback
C3_Witness ==
    /\ Returned("UTCTimeToLocalTime") /\ ret
    /\ utc_st = ValidTime(2014, 12, 31, 23, 30, 0, 0)
    /\ ActiveBias(tzi, tzi_id) < 0
    /\ Len(attempts) = 2
    /\ local_time.wYear = 2015

(***************************************************************************)
(* GetLocalTimeForTimezone: what the claims speak of.                      *)
(***************************************************************************)
\* the target civil year of the call
Year == TargetYear(utc_st, tzi_year)

\* a is an earlier date and time than b (wDayOfWeek plays no part)
Earlier(a, b) ==
    LET da == DaysFromCivil(a.wDay, a.wMonth, a.wYear)
        db == DaysFromCivil(b.wDay, b.wMonth, b.wYear)
        ta == ((a.wHour * 60 + a.wMinute) * 60 + a.wSecond) * 1000 + a.wMilliseconds
        tb == ((b.wHour * 60 + b.wMinute) * 60 + b.wSecond) * 1000 + b.wMilliseconds
    IN  da < db \/ (da = db /\ ta < tb)

\* the three candidate local times exist
CandidatesExist ==
    /\ SystemTimeSubtractMinutes(utc_st, tzi.Bias).ok
    /\ SystemTimeSubtractMinutes(utc_st, tzi.Bias + tzi.StandardBias).ok
    /\ SystemTimeSubtractMinutes(utc_st, tzi.Bias + tzi.DaylightBias).ok

StandardCandidate == SystemTimeSubtractMinutes(utc_st, tzi.Bias + tzi.StandardBias).st
DaylightCandidate == SystemTimeSubtractMinutes(utc_st, tzi.Bias + tzi.DaylightBias).st
UnknownCandidate == SystemTimeSubtractMinutes(utc_st, tzi.Bias).st

\* the call gets as far as the conversion of the two transitions: the
\* year, the rule set and the UTC time are valid, and strict mode finds a
\* candidate in the target year
ReachesTheTransitions ==
    /\ Returned("GetLocalTimeForTimezone")
    /\ IsYearValid(Year)
    /\ IsTimezoneInfoValid(tzi, TRUE)
    /\ CandidatesExist
    /\ strict => Year \in {UnknownCandidate.wYear, StandardCandidate.wYear,
                           DaylightCandidate.wYear}

StandardBoundary == TimezoneTimeToLocalTime(tzi.StandardDate, Year, ZeroSystemTime)
DaylightBoundary == TimezoneTimeToLocalTime(tzi.DaylightDate, Year, ZeroSystemTime)

BoundariesConverted ==
    ReachesTheTransitions /\ StandardBoundary.ok /\ DaylightBoundary.ok

BoundariesDiffer ==
    \/ Earlier(StandardBoundary.local, DaylightBoundary.local)
    \/ Earlier(DaylightBoundary.local, StandardBoundary.local)

\* the observance the claim C4 describes
DecisionC4 ==
    IF Earlier(StandardBoundary.local, DaylightBoundary.local)
    THEN IF /\ ~Earlier(DaylightCandidate, StandardBoundary.local)
            /\ Earlier(StandardCandidate, DaylightBoundary.local)
         THEN TIME_ZONE_ID_STANDARD ELSE TIME_ZONE_ID_DAYLIGHT
    ELSE IF /\ ~Earlier(StandardCandidate, DaylightBoundary.local)
            /\ Earlier(DaylightCandidate, StandardBoundary.local)
         THEN TIME_ZONE_ID_DAYLIGHT ELSE TIME_ZONE_ID_STANDARD

\* the call returns id with the local time of that observance; in strict
\* mode, when that local time is not in the target year, it returns INVALID
\* with ERROR_NOT_SUPPORTED instead
Decides(id) ==
    LET l == SystemTimeSubtractMinutes(utc_st, ActiveBias(tzi, id)).st
    IN  IF strict /\ l.wYear # Year
        THEN tzi_id = TIME_ZONE_ID_INVALID /\ lastError = ERROR_NOT_SUPPORTED
        ELSE tzi_id = id /\ IsUtcMinus(local_time, utc_st, ActiveBias(tzi, id))

\* C4: for a valid rule set whose two converted boundaries differ: standard
\* boundary earlier: STANDARD exactly when the daylight-biased local time is
\* at or after the standard boundary and the standard-biased local time is
\* before the daylight boundary, otherwise DAYLIGHT; daylight boundary
\* earlier: DAYLIGHT exactly when the standard-biased local time is at or
\* after the daylight boundary and the daylight-biased local time is before
\* the standard boundary, otherwise STANDARD.  For the US 2015 rule the
\* instant just before the March boundary is STANDARD, the boundary DAYLIGHT.
C4_DecisionBetweenBoundaries ==
    /\ (BoundariesConverted /\ BoundariesDiffer) => Decides(DecisionC4)
    /\ (Returned("GetLocalTimeForTimezone") /\ tzi = USEastern /\ Year = 2015) =>
          /\ utc_st = ValidTime(2015, 3, 8, 6, 59, 59, 999)
                => tzi_id = TIME_ZONE_ID_STANDARD
          /\ utc_st = ValidTime(2015, 3, 8, 7, 0, 0, 0)
                => tzi_id = TIME_ZONE_ID_DAYLIGHT

\* the last instant of standard time before the March 2015 transition
C4_Witness ==
    /\ Returned("GetLocalTimeForTimezone")
    /\ tzi = USEastern /\ Year = 2015
    /\ utc_st = ValidTime(2015, 3, 8, 6, 59, 59, 999)
    /\ tzi_id = TIME_ZONE_ID_STANDARD
    /\ local_time = ValidTime(2015, 3, 8, 1, 59, 59, 999)

\* C5: when the two converted boundaries are equal the call returns DAYLIGHT
\* (with the daylight-biased local time) only if DaylightBias # 0, otherwise
\* UNKNOWN with the base-bias local time; DAYLIGHT is never returned unless
\* the boundaries differ or DaylightBias is non-zero.
C5_CoincidentBoundaries ==
    /\ (BoundariesConverted /\ ~BoundariesDiffer) =>
          Decides(IF tzi.DaylightBias # 0 THEN TIME_ZONE_ID_DAYLIGHT
                                          ELSE TIME_ZONE_ID_UNKNOWN)
    /\ (Returned("GetLocalTimeForTimezone") /\ tzi_id = TIME_ZONE_ID_DAYLIGHT) =>
          /\ BoundariesConverted
          /\ BoundariesDiffer \/ tzi.DaylightBias # 0

\* coincident transitions and no DaylightBias: UNKNOWN, not DAYLIGHT
C5_Witness ==
    /\ BoundariesConverted /\ ~BoundariesDiffer
    /\ tzi.DaylightBias = 0
    /\ tzi_id = TIME_ZONE_ID_UNKNOWN
    /\ IsUtcMinus(local_time, utc_st, tzi.Bias)

\* the observance the call selects once the candidates exist
SelectedId ==
    IF ~(StandardBoundary.ok /\ DaylightBoundary.ok) THEN TIME_ZONE_ID_UNKNOWN
    ELSE IF BoundariesDiffer THEN DecisionC4
    ELSE IF tzi.DaylightBias # 0 THEN TIME_ZONE_ID_DAYLIGHT
    ELSE TIME_ZONE_ID_UNKNOWN

SelectedCandidate == SystemTimeSubtractMinutes(utc_st, ActiveBias(tzi, SelectedId)).st

\* C6: in strict mode every return other than TIME_ZONE_ID_INVALID has
\* local_time.wYear equal to the target year; when the selected candidate
\* lies in another year the call returns INVALID with ERROR_NOT_SUPPORTED,
\* even when another candidate lies in the target year.
C6_StrictModeKeepsTheYear ==
    /\ (Returned("GetLocalTimeForTimezone") /\ strict
            /\ tzi_id # TIME_ZONE_ID_INVALID)
          => local_time.wYear = Year
    /\ (ReachesTheTransitions /\ strict /\ SelectedCandidate.wYear # Year)
          => tzi_id = TIME_ZONE_ID_INVALID /\ lastError = ERROR_NOT_SUPPORTED

\* the call has set an error code (the callers' stale codes are other values)
ErrorCodeSet == lastError \in {ERROR_INVALID_TIME, ERROR_NOT_SUPPORTED}

\* local_time is the local time of the observance returned
LocalTimeWritten ==
    IsUtcMinus(local_time, utc_st, ActiveBias(tzi, tzi_id))

\* C7: every failure is reported as TIME_ZONE_ID_INVALID: whenever the call
\* sets an error code (target year outside 1601..30827, invalid rule set or
\* UTC time, strict year mismatch) it returns TIME_ZONE_ID_INVALID, so a
\* return other than INVALID means local_time was written.
C7_FailuresReturnInvalid ==
    Returned("GetLocalTimeForTimezone") =>
        /\ ErrorCodeSet => tzi_id = TIME_ZONE_ID_INVALID
        /\ (\/ ~IsYearValid(Year)
            \/ ~IsTimezoneInfoValid(tzi, TRUE)
            \/ ~IsSystemTimeValid(utc_st)) => tzi_id = TIME_ZONE_ID_INVALID
        /\ tzi_id # TIME_ZONE_ID_INVALID => LocalTimeWritten

\* a + b lies within [-max_diff, max_diff], for 32-bit a and b, computed
\* without a sum that leaves the 32-bit range
HalfRange == LONG_MAX \div 2 + 1

SumWithinADay(a, b) ==
    IF a >= -HalfRange /\ a <= HalfRange /\ b >= -HalfRange /\ b <= HalfRange
    THEN a + b >= -max_diff /\ a + b <= max_diff
    ELSE IF a > 0 /\ b < 0
    THEN (a - HalfRange) + (b + HalfRange) >= -max_diff
             /\ (a - HalfRange) + (b + HalfRange) <= max_diff
    ELSE IF a < 0 /\ b > 0
    THEN (a + HalfRange) + (b - HalfRange) >= -max_diff
             /\ (a + HalfRange) + (b - HalfRange) <= max_diff
    ELSE FALSE

BiasesWithinADay(z) ==
    /\ z.Bias >= -max_diff /\ z.Bias <= max_diff
    /\ SumWithinADay(z.Bias, z.StandardBias)
    /\ SumWithinADay(z.Bias, z.DaylightBias)

\* 32-bit bias values at and next to the edges of the check
BiasValues ==
    {LONG_MIN, LONG_MIN + 1, LONG_MIN + max_diff, -HalfRange, -2 * max_diff - 1,
     -2 * max_diff, -max_diff - 1, -max_diff, -max_diff + 1, -1, 0, 1,
     max_diff - 1, max_diff, max_diff + 1, 2 * max_diff, 2 * max_diff + 1,
     HalfRange, LONG_MAX - max_diff, LONG_MAX - 1, LONG_MAX}

BiasCheckIsExact ==
    \A b, sb, db \in BiasValues :
        LET z == MkTzi(b, "S", ZeroSystemTime, sb, "D", ZeroSystemTime, db)
        IN  AreTimezoneBiasesValid(z) <=> BiasesWithinADay(z)

\* C8: AreTimezoneBiasesValid is TRUE exactly when Bias, Bias + StandardBias
\* and Bias + DaylightBias all lie within [-1440, 1440], for every
\* combination of 32-bit values; GetLocalTimeForTimezone returns INVALID for
\* every rule set that fails the check.
C8_BiasCheckExactAndEnforced ==
    /\ BiasCheckIsExact
    /\ AreTimezoneBiasesValid(tzi) <=> BiasesWithinADay(tzi)
    /\ (Returned("GetLocalTimeForTimezone") /\ ~AreTimezoneBiasesValid(tzi))
          => tzi_id = TIME_ZONE_ID_INVALID

HasIgnoredTransition(z) ==
    /\ IsTimezoneInfoValid(z, TRUE)
    /\ IsTimezoneTimeIgnored(z.StandardDate) \/ IsTimezoneTimeIgnored(z.DaylightDate)

\* C9: when either transition of an otherwise valid rule set is the ignored
\* sentinel (wMonth = 0) the call never returns STANDARD or DAYLIGHT: every
\* result other than INVALID is UNKNOWN with local_time = utc minus Bias,
\* whatever StandardBias and DaylightBias are.
C9_IgnoredTransitionIsUnknown ==
    (Returned("GetLocalTimeForTimezone") /\ HasIgnoredTransition(tzi)) =>
        /\ tzi_id \notin {TIME_ZONE_ID_STANDARD, TIME_ZONE_ID_DAYLIGHT}
        /\ tzi_id # TIME_ZONE_ID_INVALID =>
              /\ tzi_id = TIME_ZONE_ID_UNKNOWN
              /\ IsUtcMinus(local_time, utc_st, tzi.Bias)

(***************************************************************************)
(* The round trip: what the claim speaks of.                               *)
(***************************************************************************)
\* the date and time fields of two SYSTEMTIMEs agree
SameDateAndTime(a, b) ==
    /\ a.wYear = b.wYear /\ a.wMonth = b.wMonth /\ a.wDay = b.wDay
    /\ a.wHour = b.wHour /\ a.wMinute = b.wMinute
    /\ a.wSecond = b.wSecond /\ a.wMilliseconds = b.wMilliseconds

\* C10: for every valid date d and either value of the last-occurrence flag
\* LocalTimeToRelativeTimezoneTime(d, flag) succeeds, and
\* TimezoneTimeToLocalTime of its result for d's year succeeds and returns
\* d's year, month, day and time fields, dates that are the last occurrence
\* of their weekday included.
C10_RoundTrip ==
    (op = "RoundTrip" /\ IsSystemTimeValid_IgnoreDayOfWeek(local)) =>
        /\ pc # "ready" => LocalTimeToRelativeTimezoneTime(local, flag, tzt).ok
        /\ pc = "relative" =>
              /\ ret
              /\ tzt.wYear = 0 /\ tzt.wDay \in 1..5
              /\ tzt.wDayOfWeek = (DaysFromCivil(local.wDay, local.wMonth, local.wYear) + 1) % 7
        /\ pc = "done" => ret /\ SameDateAndTime(local_time, local)

\* 2015-02-22, the fourth and last Sunday of a 28-day February, made the
\* final occurrence and converted back
C10_Witness ==
    /\ pc = "done" /\ op = "RoundTrip" /\ ret
    /\ flag
    /\ local.wYear = 2015 /\ local.wMonth = 2 /\ local.wDay = 22
    /\ tzt.wDay = 5 /\ tzt.wDayOfWeek = 0
    /\ SameDateAndTime(local_time, local)

(***************************************************************************)
(* Specification SpecRule: one call of TimezoneTimeToLocalTime, of         *)
(* LocalTimeToRelativeTimezoneTime or of CompareLocalTimeToTimezoneTime,   *)
(* the out-parameter holding an older value before the call.               *)
(***************************************************************************)
\* what the caller's out-parameters hold before the call
StaleTime == ValidTime(1999, 12, 31, 23, 59, 59, 999)
StaleRule == Rel(1, 1, 1, 1)

RuleTimesOfDay == {<<2, 0, 0, 0>>, <<23, 59, 59, 999>>}

\* every relative transition: month, weekday, occurrence
RelativeRules ==
    {MkSystemTime(0, mo, dow, occ, t[1], t[2], t[3], t[4]) :
        mo \in 1..12, dow \in 0..6, occ \in 1..5, t \in RuleTimesOfDay}

\* transitions with one field out of range, the ignored sentinel included
MalformedRules ==
    {ZeroSystemTime,
     MkSystemTime(0, 0, 0, 1, 2, 0, 0, 0),
     MkSystemTime(0, 13, 0, 1, 2, 0, 0, 0),
     MkSystemTime(0, 3, 7, 2, 2, 0, 0, 0),
     MkSystemTime(0, 3, 0, 0, 2, 0, 0, 0),
     MkSystemTime(0, 3, 0, 6, 2, 0, 0, 0),
     MkSystemTime(0, 3, 0, 2, 24, 0, 0, 0),
     MkSystemTime(0, 3, 0, 2, 2, 60, 0, 0),
     MkSystemTime(0, 3, 0, 2, 2, 0, 60, 0),
     MkSystemTime(0, 3, 0, 2, 2, 0, 0, 1000),
     MkSystemTime(2015, 2, 0, 30, 2, 0, 0, 0),
     MkSystemTime(2015, 2, 0, 29, 2, 0, 0, 0),
     MkSystemTime(1600, 3, 0, 8, 2, 0, 0, 0),
     MkSystemTime(30828, 1, 0, 1, 0, 0, 0, 0),
     MkSystemTime(2015, 3, 0, 8, 24, 0, 0, 0)}

\* absolute transitions, wDayOfWeek right or not
AbsoluteRules ==
    {MkSystemTime(2015, 3, dow, 8, 2, 0, 0, 0) : dow \in {0, 3}}
    \cup {MkSystemTime(2016, 2, 6, 29, 0, 0, 0, 0),
          MkSystemTime(1601, 1, 1, 1, 0, 0, 0, 0),
          MkSystemTime(30827, 12, 0, 31, 23, 59, 59, 999)}

\* the tzt_year arguments
RuleYears == UtcYears \cup {0, MinYear - 1, 2000, 2100, MaxYear + 1}

\* local times with a time of day out of range
MalformedTimes ==
    {MkSystemTime(2015, 3, 0, 8, 24, 0, 0, 0),
     MkSystemTime(2015, 3, 0, 8, 2, 60, 0, 0),
     MkSystemTime(2015, 3, 0, 8, 2, 0, 60, 0),
     MkSystemTime(2015, 3, 0, 8, 2, 0, 0, 1000),
     MkSystemTime(2015, 0, 0, 8, 2, 0, 0, 0),
     MkSystemTime(2015, 13, 0, 8, 2, 0, 0, 0),
     MkSystemTime(2015, 3, 0, 0, 2, 0, 0, 0),
     MkSystemTime(MinYear - 1, 3, 0, 8, 2, 0, 0, 0),
     MkSystemTime(MaxYear + 1, 3, 0, 8, 2, 0, 0, 0),
     ZeroSystemTime}

\* local times at and next to the transitions of 2015 and 2016, with every
\* wDayOfWeek a caller may have left in the structure
ComparedTimes ==
    {MkSystemTime(y, mo, dow, d, t[1], t[2], t[3], t[4]) :
        y \in {2015, 2016}, mo \in {3, 11}, dow \in 0..6, d \in {1, 7, 8, 9, 13},
        t \in {<<1, 59, 59, 999>>, <<2, 0, 0, 0>>, <<2, 0, 0, 1>>}}

ComparedRules ==
    {Rel(3, 0, 2, 2), Rel(11, 0, 1, 2), Rel(3, 0, 5, 2)}
    \cup AbsoluteRules \cup {ZeroSystemTime}

InitRule ==
    /\ NoFileTimeCall
    /\ NoISO8601Call
    /\ pc = "ready"
    /\ utc_st = ZeroSystemTime
    /\ os = MkOs(FALSE, FALSE, FALSE, FALSE, <<ZeroTzi, ZeroTzi>>, SplitYear, {})
    /\ tzi = ZeroTzi
    /\ strict = FALSE
    /\ tzi_id = 0
    /\ lastError = ERROR_SUCCESS
    /\ attempts = <<>>
    /\ ret = FALSE
    /\ \/ /\ op = "TimezoneTimeToLocalTime"
          /\ tzt \in RelativeRules \cup MalformedRules \cup AbsoluteRules
          /\ tzi_year \in RuleYears
          /\ local_time = StaleTime
          /\ local = ZeroSystemTime
          /\ flag = FALSE
       \/ /\ op = "LocalTimeToRelativeTimezoneTime"
          /\ local \in Dates \cup MalformedTimes
          /\ flag \in BOOLEAN
          /\ tzt = StaleRule
          /\ tzi_year = 0
          /\ local_time = ZeroSystemTime
       \/ /\ op = "CompareLocalTimeToTimezoneTime"
          /\ local \in ComparedTimes
          /\ tzt \in ComparedRules
          /\ flag = FALSE
          /\ tzi_year = 0
          /\ local_time = ZeroSystemTime

ConvertTimezoneTime ==
    /\ pc = "ready"
    /\ op = "TimezoneTimeToLocalTime"
    /\ \E r \in {TimezoneTimeToLocalTime(tzt, tzi_year, local_time)} :
           /\ local_time' = r.local
           /\ ret' = r.ok
    /\ pc' = "done"
    /\ UNCHANGED <<op, tzi_year, local, flag, tzt>>
    /\ UNCHANGED ZoneVars
    /\ UNCHANGED FileTimeVars
    /\ UNCHANGED ISO8601Vars

ConvertLocalTime ==
    /\ pc = "ready"
    /\ op = "LocalTimeToRelativeTimezoneTime"
    /\ \E r \in {LocalTimeToRelativeTimezoneTime(local, flag, tzt)} :
           /\ tzt' = r.tzt
           /\ ret' = r.ok
    /\ pc' = "done"
    /\ UNCHANGED <<op, tzi_year, local, flag, local_time>>
    /\ UNCHANGED ZoneVars
    /\ UNCHANGED FileTimeVars
    /\ UNCHANGED ISO8601Vars

CompareToTimezoneTime ==
    /\ pc = "ready"
    /\ op = "CompareLocalTimeToTimezoneTime"
    /\ ret' = CompareLocalTimeToTimezoneTime(local, tzt)
    /\ pc' = "done"
    /\ UNCHANGED <<op, tzi_year, local, flag, local_time, tzt>>
    /\ UNCHANGED ZoneVars
    /\ UNCHANGED FileTimeVars
    /\ UNCHANGED ISO8601Vars

NextRule ==
    \/ ConvertTimezoneTime
    \/ ConvertLocalTime
    \/ CompareToTimezoneTime

SpecRule == InitRule /\ [][NextRule]_vars

(***************************************************************************)
(* The calendar, written down apart from the code, to compare with.        *)
(***************************************************************************)
GregorianLeap(y) == y % 4 = 0 /\ (y % 100 # 0 \/ y % 400 = 0)

DaysInMonth(mo, y) ==
    IF mo = 2 THEN (IF GregorianLeap(y) THEN 29 ELSE 28)
    ELSE IF mo \in {4, 6, 9, 11} THEN 30
    ELSE 31

\* 1601-01-01 was a Monday
Weekday(d, mo, y) == (DaysFromCivil(d, mo, y) + 1) % 7

WellFormedTimeOfDay(t) ==
    /\ t.wHour \in 0..23 /\ t.wMinute \in 0..59
    /\ t.wSecond \in 0..59 /\ t.wMilliseconds \in 0..999

WellFormedDate(t) ==
    /\ t.wYear \in 1601..30827
    /\ t.wMonth \in 1..12
    /\ t.wDay \in 1..DaysInMonth(t.wMonth, t.wYear)
    /\ WellFormedTimeOfDay(t)

WellFormedRelative(t) ==
    /\ t.wYear = 0
    /\ t.wMonth \in 1..12
    /\ t.wDayOfWeek \in 0..6
    /\ t.wDay \in 1..5
    /\ WellFormedTimeOfDay(t)

SameTimeOfDay(a, b) ==
    /\ a.wHour = b.wHour /\ a.wMinute = b.wMinute
    /\ a.wSecond = b.wSecond /\ a.wMilliseconds = b.wMilliseconds

\* C11: for every valid relative rule and every target year in 1601..30827
\* TimezoneTimeToLocalTime succeeds and yields a date that exists in the
\* rule's month of the target year, falls on the rule's weekday and is the
\* occurrence-th such weekday of the month, or the last one when the
\* occurrence is 5 (also where the weekday occurs only four times).
C11_RuleBecomesItsDate ==
    (Returned("TimezoneTimeToLocalTime") /\ WellFormedRelative(tzt)
        /\ tzi_year \in 1601..30827) =>
        /\ ret
        /\ local_time.wYear = tzi_year
        /\ local_time.wMonth = tzt.wMonth
        /\ local_time.wDay \in 1..DaysInMonth(tzt.wMonth, tzi_year)
        /\ Weekday(local_time.wDay, tzt.wMonth, tzi_year) = tzt.wDayOfWeek
        /\ IF tzt.wDay < 5
           THEN (local_time.wDay - 1) \div 7 + 1 = tzt.wDay
           ELSE local_time.wDay + 7 > DaysInMonth(tzt.wMonth, tzi_year)
        /\ SameTimeOfDay(local_time, tzt)

\* the fifth Sunday of February 2015, which has four: the 22nd
C11_Witness ==
    /\ Returned("TimezoneTimeToLocalTime") /\ ret
    /\ tzt = Rel(2, 0, 5, 2) /\ tzi_year = 2015
    /\ local_time = MkSystemTime(2015, 2, 0, 22, 2, 0, 0, 0)

\* C12 as stated: TimezoneTimeToLocalTime fails whenever the rule is invalid
\* or the target year is outside 1601..30827, for every rule passed to it.
C12_FailsForInvalidRuleOrYear ==
    (Returned("TimezoneTimeToLocalTime")
        /\ (~(WellFormedRelative(tzt) \/ WellFormedDate(tzt))
            \/ tzi_year \notin 1601..30827))
        => ~ret

\* C12: TimezoneTimeToLocalTime fails, leaving local as it was, exactly when
\* the rule is neither a valid relative nor a valid absolute transition, or
\* it is relative and the target year is outside 1601..30827; a valid
\* absolute rule is copied, with wDayOfWeek computed, whatever the year.
C12_FailsForInvalidRuleOrRelativeYear ==
    Returned("TimezoneTimeToLocalTime") =>
        /\ ~ret <=> \/ ~(WellFormedRelative(tzt) \/ WellFormedDate(tzt))
                    \/ (WellFormedRelative(tzt) /\ tzi_year \notin 1601..30827)
        /\ ~ret => local_time = StaleTime
        /\ WellFormedDate(tzt) =>
              local_time = [tzt EXCEPT !.wDayOfWeek =
                                Weekday(tzt.wDay, tzt.wMonth, tzt.wYear)]

\* an absolute rule converted for a year outside the range
C12_Witness ==
    /\ Returned("TimezoneTimeToLocalTime") /\ ret
    /\ tzt = MkSystemTime(2015, 3, 3, 8, 2, 0, 0, 0)
    /\ tzi_year = MaxYear + 1
    /\ local_time = MkSystemTime(2015, 3, 0, 8, 2, 0, 0, 0)

\* C13: for every relaxed-valid local time LocalTimeToRelativeTimezoneTime
\* succeeds and outputs a valid relative rule: year 0, the same month and
\* time of day, the weekday of the date, and occurrence ceil(day / 7),
\* promoted from 4 to 5 exactly when the flag is set and day + 7 is not a
\* date of the month; otherwise it fails and writes nothing.
C13_DateBecomesItsRule ==
    Returned("LocalTimeToRelativeTimezoneTime") =>
        IF WellFormedDate(local)
        THEN /\ ret
             /\ WellFormedRelative(tzt)
             /\ tzt.wMonth = local.wMonth
             /\ SameTimeOfDay(tzt, local)
             /\ tzt.wDayOfWeek = Weekday(local.wDay, local.wMonth, local.wYear)
             /\ tzt.wDay =
                   IF /\ (local.wDay + 6) \div 7 = 4
                      /\ flag
                      /\ local.wDay + 7 > DaysInMonth(local.wMonth, local.wYear)
                   THEN 5
                   ELSE (local.wDay + 6) \div 7
        ELSE ~ret /\ tzt = StaleRule

\* 2016-02-22 is the fourth Monday of a February that has a fifth, the 29th:
\* the flag does not promote it
C13_Witness ==
    /\ Returned("LocalTimeToRelativeTimezoneTime") /\ ret /\ flag
    /\ local.wYear = 2016 /\ local.wMonth = 2 /\ local.wDay = 22
    /\ tzt.wDay = 4 /\ tzt.wDayOfWeek = 1 /\ tzt.wYear = 0

\* the comparison of two date-times, weekdays left out
ComparedByDateAndTime(a, b) ==
    IF Earlier(a, b) THEN -1 ELSE IF Earlier(b, a) THEN 1 ELSE 0

\* C14: CompareLocalTimeToTimezoneTime(local, rule) is the comparison,
\* weekdays left out, of local with the rule converted to a date of local's
\* year: the result (-1, 0, 1) does not depend on local.wDayOfWeek.
C14_ComparisonIgnoresDayOfWeek ==
    (Returned("CompareLocalTimeToTimezoneTime")
        /\ (WellFormedRelative(tzt) \/ WellFormedDate(tzt))) =>
        ret = ComparedByDateAndTime(local,
                  TimezoneTimeToLocalTime(tzt, local.wYear, ZeroSystemTime).local)

(***************************************************************************)
(* Specification SpecCalendar: one call of IsLeapYear, IsDateValid,        *)
(* IsSystemTimeValid_IgnoreDayOfWeek or IsSystemTimeValid.  The arguments  *)
(* day, month and year are the fields of local.                            *)
(***************************************************************************)
\* years at the ends of the supported range, century years, and years that
\* only an unsigned argument can hold
CalendarYears ==
    UtcYears \cup {0, 1, 4, 100, 400, MinYear - 1, 1700, 1900, 2000, 2023, 2024,
                   2100, 30824, MaxYear + 1, 65535, 2147483600, LONG_MAX}

CalendarTimesOfDay ==
    {<<0, 0, 0, 0>>, <<23, 59, 59, 999>>, <<24, 0, 0, 0>>, <<0, 60, 0, 0>>,
     <<0, 0, 60, 0>>, <<0, 0, 0, 1000>>}

\* the weekday of the date, the next one, and a value that is no weekday
WeekdayFields(y, mo, d) ==
    IF y \in MinYear..MaxYear /\ mo \in 1..12
    THEN {Weekday(d, mo, y), (Weekday(d, mo, y) + 1) % 7, 7}
    ELSE {0, 7}

\* two values for every field of a SYSTEMTIME
ComparedSystemTimes ==
    {MkSystemTime(y, mo, dow, d, h, mi, sec, ms) :
        y \in {2014, 2015}, mo \in {3, 11}, dow \in {0, 6}, d \in {8, 9},
        h \in {1, 2}, mi \in {0, 59}, sec \in {0, 59}, ms \in {0, 999}}

InitCalendar ==
    /\ NoFileTimeCall
    /\ NoISO8601Call
    /\ pc = "ready"
    /\ utc_st = ZeroSystemTime
    /\ os = MkOs(FALSE, FALSE, FALSE, FALSE, <<ZeroTzi, ZeroTzi>>, SplitYear, {})
    /\ tzi = ZeroTzi
    /\ strict = FALSE
    /\ tzi_id = 0
    /\ lastError = ERROR_SUCCESS
    /\ attempts = <<>>
    /\ ret = FALSE
    /\ tzi_year = 0
    /\ flag = FALSE
    /\ tzt = ZeroSystemTime
    /\ \/ /\ op \in {"CompareSystemTimes", "CompareSystemTimes_IgnoreDayOfWeek"}
          /\ local \in ComparedSystemTimes
          /\ local_time \in ComparedSystemTimes
       \/ /\ op = "GetDayOfWeek"
          /\ local_time = ZeroSystemTime
          /\ \E y \in {x \in CalendarYears : x < 2^28}, mo \in 0..13, d \in 0..32 :
                local = MkSystemTime(y, mo, 0, d, 0, 0, 0, 0)
       \/ /\ op = "IsLeapYear"
          /\ local_time = ZeroSystemTime
          /\ \E y \in CalendarYears : local = MkSystemTime(y, 0, 0, 0, 0, 0, 0, 0)
       \/ /\ op = "IsDateValid"
          /\ local_time = ZeroSystemTime
          /\ \E y \in CalendarYears, mo \in 0..13, d \in 0..32 :
                local = MkSystemTime(y, mo, 0, d, 0, 0, 0, 0)
       \/ /\ op = "IsSystemTimeValid_IgnoreDayOfWeek"
          /\ local_time = ZeroSystemTime
          /\ \E y \in CalendarYears, mo \in 0..13, d \in {0, 1, 15, 28, 29, 30, 31, 32},
                t \in CalendarTimesOfDay :
                local = MkSystemTime(y, mo, 0, d, t[1], t[2], t[3], t[4])
       \/ /\ op = "IsSystemTimeValid"
          /\ local_time = ZeroSystemTime
          /\ \E y \in CalendarYears, mo \in 0..13, d \in {0, 1, 15, 28, 29, 30, 31, 32},
                t \in CalendarTimesOfDay :
                \E dow \in WeekdayFields(y, mo, d) :
                    local = MkSystemTime(y, mo, dow, d, t[1], t[2], t[3], t[4])

CallIsLeapYear ==
    /\ pc = "ready"
    /\ op = "IsLeapYear"
    /\ ret' = IsLeapYear(local.wYear)
    /\ pc' = "done"
    /\ UNCHANGED <<op, tzi_year, local, flag, local_time, tzt>>
    /\ UNCHANGED ZoneVars
    /\ UNCHANGED FileTimeVars
    /\ UNCHANGED ISO8601Vars

CallIsDateValid ==
    /\ pc = "ready"
    /\ op = "IsDateValid"
    /\ ret' = IsDateValid(local.wDay, local.wMonth, local.wYear)
    /\ pc' = "done"
    /\ UNCHANGED <<op, tzi_year, local, flag, local_time, tzt>>
    /\ UNCHANGED ZoneVars
    /\ UNCHANGED FileTimeVars
    /\ UNCHANGED ISO8601Vars

CallIsSystemTimeValid_IgnoreDayOfWeek ==
    /\ pc = "ready"
    /\ op = "IsSystemTimeValid_IgnoreDayOfWeek"
    /\ ret' = IsSystemTimeValid_IgnoreDayOfWeek(local)
    /\ pc' = "done"
    /\ UNCHANGED <<op, tzi_year, local, flag, local_time, tzt>>
    /\ UNCHANGED ZoneVars
    /\ UNCHANGED FileTimeVars
    /\ UNCHANGED ISO8601Vars

CallIsSystemTimeValid ==
    /\ pc = "ready"
    /\ op = "IsSystemTimeValid"
    /\ ret' = IsSystemTimeValid(local)
    /\ pc' = "done"
    /\ UNCHANGED <<op, tzi_year, local, flag, local_time, tzt>>
    /\ UNCHANGED ZoneVars
    /\ UNCHANGED FileTimeVars
    /\ UNCHANGED ISO8601Vars

CallGetDayOfWeek ==
    /\ pc = "ready"
    /\ op = "GetDayOfWeek"
    /\ ret' = GetDayOfWeek(local.wDay, local.wMonth, local.wYear)
    /\ pc' = "done"
    /\ UNCHANGED <<op, tzi_year, local, flag, local_time, tzt>>
    /\ UNCHANGED ZoneVars
    /\ UNCHANGED FileTimeVars
    /\ UNCHANGED ISO8601Vars

CallCompareSystemTimes_IgnoreDayOfWeek ==
    /\ pc = "ready"
    /\ op = "CompareSystemTimes_IgnoreDayOfWeek"
    /\ ret' = CompareSystemTimes_IgnoreDayOfWeek(local, local_time)
    /\ pc' = "done"
    /\ UNCHANGED <<op, tzi_year, local, flag, local_time, tzt>>
    /\ UNCHANGED ZoneVars
    /\ UNCHANGED FileTimeVars
    /\ UNCHANGED ISO8601Vars

CallCompareSystemTimes ==
    /\ pc = "ready"
    /\ op = "CompareSystemTimes"
    /\ ret' = CompareSystemTimes(local, local_time)
    /\ pc' = "done"
    /\ UNCHANGED <<op, tzi_year, local, flag, local_time, tzt>>
    /\ UNCHANGED ZoneVars
    /\ UNCHANGED FileTimeVars
    /\ UNCHANGED ISO8601Vars

NextCalendar ==
    \/ CallGetDayOfWeek
    \/ CallCompareSystemTimes_IgnoreDayOfWeek
    \/ CallCompareSystemTimes
    \/ CallIsLeapYear
    \/ CallIsDateValid
    \/ CallIsSystemTimeValid_IgnoreDayOfWeek
    \/ CallIsSystemTimeValid

SpecCalendar == InitCalendar /\ [][NextCalendar]_vars

C19_LeapYearOnlyInRange ==
    Returned("IsLeapYear") =>
        (ret <=> (local.wYear \in 1601..30827 /\ GregorianLeap(local.wYear)))

\* C20: IsDateValid is TRUE iff year is in 1601..30827, month in 1..12 and
\* 1 <= day <= the days of that month in that year;
\* IsSystemTimeValid_IgnoreDayOfWeek adds hour < 24, minute < 60,
\* second < 60, millisecond < 1000; IsSystemTimeValid adds that wDayOfWeek
\* is the weekday of the date.
C20_DateAndTimeValidity ==
    /\ Returned("IsDateValid") =>
          (ret <=> /\ local.wYear \in 1601..30827
                   /\ local.wMonth \in 1..12
                   /\ local.wDay \in 1..DaysInMonth(local.wMonth, local.wYear))
    /\ Returned("IsSystemTimeValid_IgnoreDayOfWeek") =>
          (ret <=> WellFormedDate(local))
    /\ Returned("IsSystemTimeValid") =>
          (ret <=> /\ WellFormedDate(local)
                   /\ local.wDayOfWeek =
                         Weekday(local.wDay, local.wMonth, local.wYear))

\* 2100-02-29 is no date, 2000-02-29 is one
C20_Witness ==
    /\ Returned("IsDateValid")
    /\ local.wMonth = 2 /\ local.wDay = 29
    /\ \/ local.wYear = 2100 /\ ~ret
       \/ local.wYear = 2000 /\ ret

(***************************************************************************)
(* Specification SpecTicks: one call of FileTimeSubtract100nsIntervals or  *)
(* FileTimeAdd100nsIntervals on the caller's FILETIME, or a call of        *)
(* FileTimeAddMinutes or FileTimeSubtractMinutes which, when it returned   *)
(* true, is followed by a call of the other one with the same minutes.     *)
(* ft_before is the caller's copy of the FILETIME as it was.  A product    *)
(* minutes * 10000 * 1000 * 60 that leaves the range of long long is       *)
(* undefined: the build either keeps the low 64 bits (what the cl and g++  *)
(* command lines of filetimes_example.cpp produce) or traps.               *)
(***************************************************************************)
OneTick == I64(0, 0, 1)
OneMinute == I64(0, 1, 0)
SomeTicks == I64(151000, 720, 5)

\* FILETIMEs at and beyond both ends of the valid range; a FILETIME from
\* 0x8000000000000000 on is a negative QuadPart
FileTimes ==
    {I64Zero, OneTick, OneMinute, SomeTicks, I64Sub(FILETIME_MAX, OneMinute),
     FILETIME_MAX, I64Add(FILETIME_MAX, OneTick), LLONG_MAX, LLONG_MIN,
     I64Neg(OneTick)}

IntervalCounts ==
    LET Positive == {OneTick, OneMinute, SomeTicks, FILETIME_MAX,
                     I64Add(FILETIME_MAX, OneTick), LLONG_MAX}
    IN  {I64Zero, LLONG_MIN} \cup Positive \cup {I64Neg(x) : x \in Positive}

\* 15371916479 minutes reach FILETIME max from 0; 15372286728 is the
\* largest count of minutes with a product in long long; 2^56 * 600000000
\* is a multiple of 2^64
MinuteCounts ==
    LET Positive == {LongLong(1), LongLong(MinutesPerDay), LongLong(217440720),
                     <<54463, 37948, 3, 0>>, <<54464, 37948, 3, 0>>,
                     <<31496, 37954, 3, 0>>, <<31497, 37954, 3, 0>>,
                     <<0, 0, 0, 256>>, <<1, 0, 0, 256>>,
                     <<Word - 1, Word - 1, Word - 1, HalfWord - 1>>}
    IN  {LongLong(0), <<0, 0, 0, HalfWord>>} \cup Positive
            \cup {LongLongNeg(x) : x \in Positive}

InitTicks ==
    /\ pc = "ready"
    /\ utc_st = ZeroSystemTime
    /\ os = MkOs(FALSE, FALSE, FALSE, FALSE, <<ZeroTzi, ZeroTzi>>, SplitYear, {})
    /\ tzi = ZeroTzi
    /\ strict = FALSE
    /\ tzi_id = 0
    /\ lastError = ERROR_SUCCESS
    /\ attempts = <<>>
    /\ ret = FALSE
    /\ tzi_year = 0
    /\ flag = FALSE
    /\ tzt = ZeroSystemTime
    /\ local_time = ZeroSystemTime
    /\ local = ZeroSystemTime
    /\ NoISO8601Call
    /\ filetime \in FileTimes
    /\ ft_before = filetime
    /\ \/ /\ op \in {"FileTimeSubtract100nsIntervals", "FileTimeAdd100nsIntervals"}
          /\ n_intervals \in IntervalCounts
          /\ n_minutes = LongLong(0)
          /\ build = "wrap"
       \/ /\ op \in {"FileTimeSubtractMinutes", "FileTimeAddMinutes"}
          /\ n_intervals = I64Zero
          /\ n_minutes \in MinuteCounts
          /\ build \in {"wrap", "trap"}

TicksUnchanged ==
    /\ UNCHANGED <<op, tzi_year, local, flag, local_time, tzt>>
    /\ UNCHANGED ZoneVars
    /\ UNCHANGED <<ft_before, n_intervals, n_minutes, build>>
    /\ UNCHANGED ISO8601Vars

CallFileTimeSubtract100nsIntervals ==
    /\ pc = "ready"
    /\ op = "FileTimeSubtract100nsIntervals"
    /\ \E r \in {FileTimeSubtract100nsIntervals(filetime, n_intervals)} :
          /\ filetime' = r.ft
          /\ ret' = r.ok
    /\ pc' = "done"
    /\ TicksUnchanged

CallFileTimeAdd100nsIntervals ==
    /\ pc = "ready"
    /\ op = "FileTimeAdd100nsIntervals"
    /\ \E r \in {FileTimeAdd100nsIntervals(filetime, n_intervals)} :
          /\ filetime' = r.ft
          /\ ret' = r.ok
    /\ pc' = "done"
    /\ TicksUnchanged

\* return FileTimeSubtract100nsIntervals( ft, minutes * 10000 * 1000 * 60 );
CallFileTimeSubtractMinutes ==
    /\ \/ pc = "ready" /\ op = "FileTimeSubtractMinutes"
       \/ pc = "done" /\ op = "FileTimeAddMinutes" /\ ret
    /\ \E p \in {MinutesProduct(n_minutes)} :
          IF p.overflow /\ build = "trap"
          THEN /\ pc' = "trapped"
               /\ UNCHANGED <<filetime, ret>>
          ELSE \E r \in {FileTimeSubtract100nsIntervals(filetime,
                                                        LongLongToI64(p.value))} :
                  /\ filetime' = r.ft
                  /\ ret' = r.ok
                  /\ pc' = IF pc = "ready" THEN "done" ELSE "back"
    /\ TicksUnchanged

\* return FileTimeAdd100nsIntervals( ft, minutes * 10000 * 1000 * 60 );
CallFileTimeAddMinutes ==
    /\ \/ pc = "ready" /\ op = "FileTimeAddMinutes"
       \/ pc = "done" /\ op = "FileTimeSubtractMinutes" /\ ret
    /\ \E p \in {MinutesProduct(n_minutes)} :
          IF p.overflow /\ build = "trap"
          THEN /\ pc' = "trapped"
               /\ UNCHANGED <<filetime, ret>>
          ELSE \E r \in {FileTimeAdd100nsIntervals(filetime,
                                                   LongLongToI64(p.value))} :
                  /\ filetime' = r.ft
                  /\ ret' = r.ok
                  /\ pc' = IF pc = "ready" THEN "done" ELSE "back"
    /\ TicksUnchanged

NextTicks ==
    \/ CallFileTimeSubtract100nsIntervals
    \/ CallFileTimeAdd100nsIntervals
    \/ CallFileTimeSubtractMinutes
    \/ CallFileTimeAddMinutes

SpecTicks == InitTicks /\ [][NextTicks]_vars

\* the range 0 .. 0x7FFF35F4F06C58F0
InTickRange(x) ==
    /\ x.d >= 0
    /\ \/ x.d < 10674941
       \/ x.d = 10674941 /\ x.m < 1439
       \/ x.d = 10674941 /\ x.m = 1439 /\ x.t <= 599990000

\* the sum or difference as a mathematical integer
ExactResult == 
    IF op = "FileTimeAdd100nsIntervals" THEN I64Add(ft_before, n_intervals)
    ELSE I64Sub(ft_before, n_intervals)

InLongLong(x) == ~I64Less(x, LLONG_MIN) /\ ~I64Less(LLONG_MAX, x)

\* C15: a timestamp is valid iff it lies in 0 .. 0x7FFF35F4F06C58F0; when
\* FileTimeAdd100nsIntervals or FileTimeSubtract100nsIntervals returns true
\* the input was valid and the new value is exactly old + n (old - n) as a
\* mathematical integer, and valid; when the exact result lies outside the
\* range, or the 64-bit operation (the negation of n in Add included)
\* would wrap, the call returns false.
C15_TickArithmeticIsExactOrFails ==
    /\ pc = "ready" /\ op \in {"FileTimeAdd100nsIntervals", "FileTimeSubtract100nsIntervals"} =>
          (IsFileTimeValid(filetime) <=> InTickRange(filetime))
    /\ Returned("FileTimeAdd100nsIntervals") \/ Returned("FileTimeSubtract100nsIntervals") =>
          /\ ret => /\ InTickRange(ft_before)
                    /\ filetime = ExactResult
                    /\ InTickRange(filetime)
          /\ ~InTickRange(ExactResult) => ~ret
          /\ ~InLongLong(ExactResult) => ~ret
          /\ op = "FileTimeAdd100nsIntervals" /\ n_intervals = LLONG_MIN => ~ret
          /\ ~InTickRange(ft_before) => ~ret

\* FILETIME max reached from one minute before it by adding one minute
C15_Witness ==
    /\ Returned("FileTimeAdd100nsIntervals")
    /\ ret
    /\ n_intervals = OneMinute
    /\ filetime = FILETIME_MAX
    /\ ft_before # filetime

\* minutes * 600,000,000 as a mathematical integer, from minutes divided by
\* the minutes of a day; DaysFit: the days are below 2^31
DaysOfMinutes(minutes) == WordsDividedBy(LongLongMagnitude(minutes), MinutesPerDay)

DaysFit(minutes) ==
    /\ DaysOfMinutes(minutes).q[4] = 0
    /\ DaysOfMinutes(minutes).q[3] = 0
    /\ DaysOfMinutes(minutes).q[2] < HalfWord

TicksOfMinutes(minutes) ==
    LET e == DaysOfMinutes(minutes)
        magnitude == I64(e.q[1] + Word * e.q[2], e.r, 0)
    IN  IF LongLongIsNegative(minutes) THEN I64Neg(magnitude) ELSE magnitude

\* C16: FileTimeAddMinutes and FileTimeSubtractMinutes never wrap silently:
\* for every minutes value the call returns false or changes the timestamp
\* by exactly minutes * 600,000,000 ticks.
C16_MinutesNeverWrapSilently ==
    /\ Returned("FileTimeAddMinutes") /\ ret =>
          /\ DaysFit(n_minutes)
          /\ filetime = I64Add(ft_before, TicksOfMinutes(n_minutes))
    /\ Returned("FileTimeSubtractMinutes") /\ ret =>
          /\ DaysFit(n_minutes)
          /\ filetime = I64Sub(ft_before, TicksOfMinutes(n_minutes))

\* C17: when FileTimeAddMinutes(t, m) succeeds on a valid t,
\* FileTimeSubtractMinutes of the same m on the result succeeds and gives
\* exactly t; the same with Subtract first and Add second.
C17_MinutesRoundTrip ==
    pc = "back" => ret /\ filetime = ft_before

\* a day added to and taken from a FILETIME in the middle of the range
C17_Witness ==
    /\ pc = "back"
    /\ op = "FileTimeAddMinutes"
    /\ n_minutes = LongLong(MinutesPerDay)
    /\ ft_before = SomeTicks
    /\ filetime = SomeTicks

\* C21: GetDayOfWeek returns a value in 0..6 for every input (a month
\* outside 1..12 and year 0, where the unsigned subtraction wraps, included);
\* for every valid date in 1601..30827 it is the Gregorian weekday with
\* 0 = Sunday (2000-01-01 gives 6).
C21_DayOfWeekIsTheWeekday ==
    Returned("GetDayOfWeek") =>
        /\ ret \in 0..6
        /\ WellFormedDate(local) => ret = Weekday(local.wDay, local.wMonth, local.wYear)
        /\ local.wYear = 2000 /\ local.wMonth = 1 /\ local.wDay = 1 => ret = 6

\* 2024-02-29, a Thursday, and 2024-03-01, a Friday
C21_Witness ==
    /\ Returned("GetDayOfWeek")
    /\ local.wYear = 2024
    /\ \/ local.wMonth = 2 /\ local.wDay = 29 /\ ret = 4
       \/ local.wMonth = 3 /\ local.wDay = 1 /\ ret = 5

\* the compared fields in the order of comparison
ComparedFields(st) ==
    <<st.wYear, st.wMonth, st.wDay, st.wHour, st.wMinute, st.wSecond, st.wMilliseconds>>

\* the lexicographic order of two sequences of equal length
Lexicographic(x, y) ==
    IF x = y THEN 0
    ELSE LET i == CHOOSE k \in 1..Len(x) :
                     x[k] # y[k] /\ \A j \in 1..(k - 1) : x[j] = y[j]
         IN  IF x[i] < y[i] THEN -1 ELSE 1

\* C22: CompareSystemTimes_IgnoreDayOfWeek is the lexicographic order on
\* (year, month, day, hour, minute, second, millisecond), CompareSystemTimes
\* the same with dayOfWeek as last key; both return only -1, 0 or 1, return
\* 0 iff all compared fields are equal, and compare(a, b) = -compare(b, a).
C22_ComparisonIsLexicographic ==
    /\ Returned("CompareSystemTimes_IgnoreDayOfWeek") =>
          /\ ret \in {-1, 0, 1}
          /\ ret = Lexicographic(ComparedFields(local), ComparedFields(local_time))
          /\ ret = 0 <=> ComparedFields(local) = ComparedFields(local_time)
          /\ ret = -CompareSystemTimes_IgnoreDayOfWeek(local_time, local)
    /\ Returned("CompareSystemTimes") =>
          /\ ret \in {-1, 0, 1}
          /\ ret = Lexicographic(Append(ComparedFields(local), local.wDayOfWeek),
                                 Append(ComparedFields(local_time), local_time.wDayOfWeek))
          /\ ret = 0 <=> local = local_time
          /\ ret = -CompareSystemTimes(local_time, local)

\* two times that differ in the day of week only
C22_Witness ==
    /\ Returned("CompareSystemTimes")
    /\ ComparedFields(local) = ComparedFields(local_time)
    /\ local.wDayOfWeek > local_time.wDayOfWeek
    /\ ret = 1

\* the error a failed GetTimezoneForYear call leaves: its own for a year
\* outside 1601..30827, otherwise that of the WinAPI call that failed
ProviderError(year) ==
    IF year \in 1601..30827 THEN os.apiError ELSE ERROR_INVALID_TIME

ProviderFailures == {i \in 1..Len(attempts) : ~attempts[i].provided}

\* C23: when UTCTimeToLocalTime fails, the error code is non-zero; if a
\* GetTimezoneForYear call failed during the conversion, the error reported
\* is that call's error unchanged; only when no such call failed is it the
\* resolver's own error.
C23_ProviderErrorIsReported ==
    (Returned("UTCTimeToLocalTime") /\ ~ret) =>
        /\ lastError # 0
        /\ ProviderFailures # {} =>
              \E i \in ProviderFailures : lastError = ProviderError(attempts[i].year)
        /\ ProviderFailures = {} =>
              lastError \in {ERROR_INVALID_TIME, ERROR_NOT_SUPPORTED}

\* C27: the two transition boundaries GetLocalTimeForTimezone compares the
\* candidates against are dates of the target civil year: after conversion
\* both have wYear = tzi_year, for relative and absolute rules alike.
C27_BoundariesInTargetYear ==
    BoundariesConverted =>
        /\ StandardBoundary.local.wYear = Year
        /\ DaylightBoundary.local.wYear = Year

\* the boundary of a relative rule is a date of the target year; an absolute
\* rule is its own boundary, in its own year
BoundaryOfRule(rule, boundary) ==
    IF rule.wYear = 0
    THEN boundary.wYear = Year /\ boundary.wMonth = rule.wMonth
    ELSE SameDateAndTime(boundary, rule)

\* C27, amended: the boundary of a relative rule has wYear = tzi_year; an
\* absolute rule is taken as it is, with the year it names.
C27_RelativeBoundariesInTargetYear ==
    BoundariesConverted =>
        /\ BoundaryOfRule(tzi.StandardDate, StandardBoundary.local)
        /\ BoundaryOfRule(tzi.DaylightDate, DaylightBoundary.local)

\* relative rules converted for a target year other than the year of the
\* UTC time
C27_Witness ==
    /\ BoundariesConverted
    /\ tzi.StandardDate.wYear = 0
    /\ tzi.DaylightDate.wYear = 0
    /\ Year # utc_st.wYear
    /\ StandardBoundary.local.wYear = Year

\* the date of the UTC time is neither January 1 nor December 31
AwayFromYearEnd ==
    /\ ~(utc_st.wMonth = 1 /\ utc_st.wDay = 1)
    /\ ~(utc_st.wMonth = 12 /\ utc_st.wDay = 31)

\* C29: for every rule set that passes the bias check and every valid UTC
\* time whose date is neither January 1 nor December 31, the three candidate
\* local times lie in the year of the UTC time, so a strict-mode call for
\* that year is never rejected for a year mismatch.
C29_CandidatesStayInTheYear ==
    (/\ Returned("GetLocalTimeForTimezone")
     /\ IsSystemTimeValid(utc_st)
     /\ AwayFromYearEnd
     /\ AreTimezoneBiasesValid(tzi)) =>
        /\ CandidatesExist
        /\ UnknownCandidate.wYear = utc_st.wYear
        /\ StandardCandidate.wYear = utc_st.wYear
        /\ DaylightCandidate.wYear = utc_st.wYear
        /\ (strict /\ Year = utc_st.wYear /\ IsTimezoneInfoValid(tzi, TRUE)) =>
              /\ tzi_id # TIME_ZONE_ID_INVALID
              /\ local_time.wYear = utc_st.wYear

\* January 2, 00:00 UTC in a zone a whole day behind: January 1, 00:00
C29_Witness ==
    /\ Returned("GetLocalTimeForTimezone")
    /\ strict
    /\ utc_st.wMonth = 1 /\ utc_st.wDay = 2 /\ utc_st.wHour = 0
    /\ tzi = DayBehind
    /\ tzi_id = TIME_ZONE_ID_STANDARD
    /\ local_time.wMonth = 1 /\ local_time.wDay = 1
    /\ local_time.wYear = utc_st.wYear

(***************************************************************************)
(* Specification SpecSweep: a caller that holds a rule set and a target    *)
(* year fixed and calls GetLocalTimeForTimezone, not strict, for UTC       *)
(* instants half an hour apart, from two days before the target year to    *)
(* two days after it.  attempts lists the calls at which the observance    *)
(* returned differs from that of the call before.                          *)
(***************************************************************************)
SweepYear == 2014 + 1
SweepStep == 30

\* StandardBias and DaylightBias at the two ends of what the bias check
\* lets through, and a DaylightBias above the StandardBias
WideApart == MkTzi(0, "S", Rel(11, 0, 1, 2), max_diff, "D", Rel(3, 0, 2, 2), -max_diff)
Inverted == MkTzi(-330, "S", Rel(4, 0, 1, 3), -60, "D", Rel(10, 0, 1, 2), 90)

SweepZones ==
    {USEastern, Sydney, Azores, Berlin, Absolute2015, DayBehind, DayAhead,
     WideApart, Inverted}

InitSweep ==
    /\ NoFileTimeCall
    /\ NoISO8601Call
    /\ pc = "ready"
    /\ op = "sweep"
    /\ utc_st = ValidTime(SweepYear - 1, 12, 30, 0, 0, 0, 0)
    /\ os = MkOs(FALSE, FALSE, FALSE, FALSE, <<ZeroTzi, ZeroTzi>>, SplitYear, {})
    /\ tzi \in SweepZones
    /\ tzi_year = SweepYear
    /\ strict = FALSE
    /\ local_time = ZeroSystemTime
    /\ tzi_id = 0
    /\ ret = FALSE
    /\ lastError = ERROR_SUCCESS
    /\ attempts = <<>>
    /\ local = ZeroSystemTime
    /\ flag = FALSE
    /\ tzt = ZeroSystemTime

\* the next instant, and the call for it
CallForNextInstant ==
    /\ op = "sweep"
    /\ Earlier(utc_st, ValidTime(SweepYear + 1, 1, 2, 0, 0, 0, 0))
    /\ \E next \in {SystemTimeSubtractMinutes(utc_st, -SweepStep).st} :
          /\ utc_st' = next
          /\ \E r \in {GetLocalTimeForTimezone(local_time, tzi, next, tzi_year,
                                               strict, lastError)} :
                /\ tzi_id' = r.id
                /\ local_time' = r.local_time
                /\ lastError' = r.lastError
                /\ attempts' =
                      IF attempts # <<>> /\ LastAttempt.id = r.id THEN attempts
                      ELSE Append(attempts, [year |-> tzi_year, strict |-> strict,
                                             provided |-> TRUE, id |-> r.id])
    /\ pc' = "done"
    /\ UNCHANGED <<op, os, tzi, tzi_year, strict, ret, local, flag, tzt>>
    /\ UNCHANGED FileTimeVars
    /\ UNCHANGED ISO8601Vars

NextSweep == CallForNextInstant

SpecSweep == InitSweep /\ [][NextSweep]_vars

\* the observance between the two boundaries of the year
InnerObservance ==
    IF Earlier(DaylightBoundary.local, StandardBoundary.local)
    THEN TIME_ZONE_ID_DAYLIGHT ELSE TIME_ZONE_ID_STANDARD

\* C30: for a fixed valid rule set with distinct boundaries and a fixed
\* target year, not strict, the observance GetLocalTimeForTimezone returns
\* changes at most twice as the UTC instant increases: the instants of the
\* inner observance (DAYLIGHT when the daylight boundary is the earlier one,
\* STANDARD when the standard boundary is) form one interval.
C30_InnerObservanceIsOneInterval ==
    op = "sweep" =>
        /\ Len(attempts) <= 3
        /\ Cardinality({i \in 1..Len(attempts) : attempts[i].id = InnerObservance}) <= 1
        /\ \A i \in 1..Len(attempts) :
              attempts[i].id \in {TIME_ZONE_ID_STANDARD, TIME_ZONE_ID_DAYLIGHT}

\* the sweep has gone through the outer, the inner and again the outer
\* observance
C30_Witness ==
    /\ op = "sweep"
    /\ Len(attempts) = 3
    /\ attempts[2].id = InnerObservance
    /\ attempts[1].id = attempts[3].id
    /\ utc_st.wYear = SweepYear + 1

\* C28: when FileTimeAdd100nsIntervals, FileTimeSubtract100nsIntervals or a
\* minute wrapper fails, the timestamp passed in still holds its original
\* value; a new value is produced only on success.
C28_FailureLeavesTheTimestamp ==
    (/\ pc = "done"
     /\ op \in {"FileTimeAdd100nsIntervals", "FileTimeSubtract100nsIntervals",
                "FileTimeAddMinutes", "FileTimeSubtractMinutes"}
     /\ ~ret) => filetime = ft_before

\* what a failed call has been asked to move the timestamp by
RequestedChange ==
    IF op \in {"FileTimeAdd100nsIntervals", "FileTimeSubtract100nsIntervals"}
    THEN n_intervals
    ELSE LongLongToI64(MinutesProduct(n_minutes).value)

ChangedTimestamp ==
    IF op \in {"FileTimeAdd100nsIntervals", "FileTimeAddMinutes"}
    THEN I64Add(ft_before, RequestedChange)
    ELSE I64Sub(ft_before, RequestedChange)

\* C28, amended: a call that fails because the timestamp passed in is
\* invalid, or because the 64-bit operation would overflow, leaves the
\* timestamp as it was; a call that fails because the result lies outside
\* the valid range leaves that result, an invalid timestamp, in place.
C28_FailureLeavesTheTimestampOrAnInvalidOne ==
    (/\ pc = "done"
     /\ op \in {"FileTimeAdd100nsIntervals", "FileTimeSubtract100nsIntervals",
                "FileTimeAddMinutes", "FileTimeSubtractMinutes"}
     /\ ~ret) =>
        IF \/ ~InTickRange(ft_before)
           \/ ~InLongLong(ChangedTimestamp)
           \/ (op \in {"FileTimeAdd100nsIntervals", "FileTimeAddMinutes"}
                   /\ RequestedChange = LLONG_MIN)
        THEN filetime = ft_before
        ELSE filetime = ChangedTimestamp /\ ~InTickRange(filetime)

\* one tick added to FILETIME max: the call fails and leaves max + 1
C28_Witness ==
    /\ Returned("FileTimeAdd100nsIntervals")
    /\ ~ret
    /\ ft_before = FILETIME_MAX
    /\ n_intervals = OneTick
    /\ filetime = I64Add(FILETIME_MAX, OneTick)

(***************************************************************************)
(* Specification SpecISO8601: a caller of the ISO8601 functions, as in     *)
(* iso8601_example.cpp: one ISO8601 object whose prefer_local_time the     *)
(* caller changes between calls, one TimeInfo and one DayDateTime that     *)
(* receive any number of calls.  The caller uses one output object at a    *)
(* time: the two objects share no state.  The overloads of GetTimeInfo     *)
(* differ in how they come by utc_ft and in the object they write to.      *)
(***************************************************************************)
\* the sticky parameters the caller sets before the calls
ISO8601Formats ==
    {TimeFormat_Clear,
     [usa_style |-> TRUE, day_string_with_abbreviation |-> TRUE,
      time_string_with_milliseconds |-> TRUE]}

ISO8601Objects ==
    {[prefer_local_time |-> p, dst_start_year |-> y, ignore_dst |-> i,
      format |-> f] :
        p \in BOOLEAN, y \in {ISO8601_Default.dst_start_year, SplitYear},
        i \in BOOLEAN, f \in ISO8601Formats}

\* United States Eastern, with the automatic adjustment for daylight saving
\* time on and off, and with a provider that fails for one year; Lagos
ISO8601Providers ==
    {MkOs(TRUE, TRUE, FALSE, dis, <<USEastern, USEastern>>, SplitYear, {}) :
        dis \in BOOLEAN}
    \cup {MkOs(TRUE, TRUE, FALSE, FALSE, <<USEastern, USEastern>>, SplitYear,
               {SplitYear}),
          MkOs(TRUE, TRUE, FALSE, FALSE, <<Lagos, Lagos>>, SplitYear, {})}

\* UTC times in the summer and the winter before SplitYear and in its summer
ISO8601Times ==
    {ValidTime(SplitYear - 1, 7, 1, 13, 30, 0, 0),
     ValidTime(SplitYear - 1, 1, 15, 6, 5, 9, 85),
     ValidTime(SplitYear, 7, 1, 0, 30, 0, 0)}

\* the same as FILETIME, and a FILETIME that IsFileTimeValid rejects
ISO8601FileTimes ==
    {SystemTimeToFileTime(t).ft : t \in ISO8601Times} \cup {LLONG_MAX}

\* as SYSTEMTIME: a wrong day of the week, which SystemTimeToFileTime
\* ignores, and no date, for which it fails
ISO8601SystemTimes ==
    ISO8601Times
        \cup {[ValidTime(SplitYear - 1, 7, 1, 13, 30, 0, 0) EXCEPT !.wDayOfWeek = 0],
              ZeroSystemTime}

\* the arguments of the three overloads of GetTimeInfo: a FILETIME, a
\* SYSTEMTIME, none (now is what GetSystemTimeAsFileTime gives)
GetTimeInfoArguments ==
    {[overload |-> "FILETIME", utc_ft |-> f] : f \in ISO8601FileTimes}
    \cup {[overload |-> "SYSTEMTIME", utc_st |-> t] : t \in ISO8601SystemTimes}
    \cup {[overload |-> "none", now |-> f] : f \in ISO8601FileTimes \ {LLONG_MAX}}

\* [ok |-> FALSE: the overload clears the object and returns false,
\*  ft |-> the utc_ft that it passes on]
PassedFileTime(a) ==
    IF a.overload = "FILETIME" THEN [ok |-> TRUE, ft |-> a.utc_ft]
    ELSE IF a.overload = "SYSTEMTIME" THEN SystemTimeToFileTime(a.utc_st)
    ELSE [ok |-> TRUE, ft |-> a.now]

InitISO8601 ==
    /\ pc = "ready"
    /\ op = "ISO8601"
    /\ utc_st = ZeroSystemTime
    /\ os \in ISO8601Providers
    /\ tzi = ZeroTzi
    /\ local_time = ZeroSystemTime
    /\ tzi_id = 0
    /\ ret = FALSE
    /\ lastError = ERROR_SUCCESS
    /\ attempts = <<>>
    /\ tzi_year = 0
    /\ strict = FALSE
    /\ local = ZeroSystemTime
    /\ flag = FALSE
    /\ tzt = ZeroSystemTime
    /\ NoFileTimeCall
    /\ iso8601 \in ISO8601Objects
    /\ ti = TimeInfo_Default
    /\ ddt = DayDateTime_Clear

ISO8601Unchanged ==
    /\ UNCHANGED <<os, tzi, tzi_year, strict, local_time, tzi_id, attempts,
                   local, flag, tzt>>
    /\ UNCHANGED <<ft_before, n_intervals, n_minutes, build>>

\* g_iso8601.prefer_local_time = false; ... = true;
SetPreferLocalTime ==
    /\ \E p \in BOOLEAN :
           /\ p # iso8601.prefer_local_time
           /\ iso8601' = [iso8601 EXCEPT !.prefer_local_time = p]
    /\ pc' = "done"
    /\ op' = "prefer_local_time"
    /\ UNCHANGED <<ti, ddt, ret, lastError, utc_st, filetime>>
    /\ ISO8601Unchanged

\* GetTimeInfo( ti, utc_ft ), GetTimeInfo( ti, utc_st ), GetTimeInfo( ti ) and
\* GetTimeInfo( ddt, utc_ft ), GetTimeInfo( ddt, utc_st ), GetTimeInfo( ddt )
CallGetTimeInfo ==
    /\ \E a \in GetTimeInfoArguments, out \in {"TimeInfo", "DayDateTime"} :
           /\ out = "TimeInfo" => ddt = DayDateTime_Clear
           /\ out = "DayDateTime" => ti = TimeInfo_Default
           /\ op' = IF out = "TimeInfo" THEN "GetTimeInfo"
                    ELSE "GetTimeInfo_DayDateTime"
           /\ \E toft \in {PassedFileTime(a)} :
                  IF ~toft.ok
                  THEN /\ ret' = FALSE
                       /\ ti' = IF out = "TimeInfo" THEN TimeInfo_Clear(ti, TRUE)
                                ELSE ti
                       /\ ddt' = DayDateTime_Clear
                       /\ UNCHANGED lastError
                  ELSE \E c \in {GetTimeInfoLocalAndUTC(iso8601, toft.ft, os,
                                                        lastError)} :
                           IF out = "TimeInfo"
                           THEN \E r \in {GetTimeInfo(iso8601, ti, c)} :
                                    /\ ret' = r.ret
                                    /\ ti' = r.ti
                                    /\ lastError' = r.lastError
                                    /\ UNCHANGED ddt
                           ELSE \E r \in {GetTimeInfo_DayDateTime(iso8601, c)} :
                                    /\ ret' = r.ret
                                    /\ ddt' = r.ddt
                                    /\ lastError' = r.lastError
                                    /\ UNCHANGED ti
    /\ pc' = "done"
    /\ UNCHANGED <<iso8601, utc_st, filetime>>
    /\ ISO8601Unchanged

\* ti.Clear(), ti.Clear( false )
CallClear ==
    /\ \E also_clear_base_subobjects \in BOOLEAN :
           ti' = TimeInfo_Clear(ti, also_clear_base_subobjects)
    /\ pc' = "done"
    /\ op' = "Clear"
    /\ UNCHANGED <<iso8601, ddt, ret, lastError, utc_st, filetime>>
    /\ ISO8601Unchanged

\* ti.PreferLocalTime( new_pref )
CallPreferLocalTime ==
    /\ \E new_pref \in BOOLEAN : ti' = PreferLocalTime(ti, new_pref)
    /\ pc' = "done"
    /\ op' = "PreferLocalTime"
    /\ UNCHANGED <<iso8601, ddt, ret, lastError, utc_st, filetime>>
    /\ ISO8601Unchanged

NextISO8601 ==
    \/ SetPreferLocalTime
    \/ CallGetTimeInfo
    \/ CallClear
    \/ CallPreferLocalTime

SpecISO8601 == InitISO8601 /\ [][NextISO8601]_vars

\* the DayDateTime with the local time that the returned call has produced
ProducedLocalTimes ==
    IF Returned("GetTimeInfo") /\ ret THEN {Pointee(ti, ti.local)}
    ELSE IF Returned("GetTimeInfo_DayDateTime") /\ ret /\ iso8601.prefer_local_time
    THEN {ddt}
    ELSE {}

\* C24: the conversion to local time applies daylight saving time only if
\* ignore_dst is false and dst_start_year <= the year of the converted local
\* time: with ignore_dst true, or a local year before dst_start_year, the
\* DayDateTime produced has tm.tm_isdst = 0 and a bias without DaylightBias.
C24_DstOnlyWhenNotIgnored ==
    \A d \in ProducedLocalTimes :
        iso8601.ignore_dst \/ d.st.wYear < iso8601.dst_start_year =>
            /\ d.tm.tm_isdst = 0
            /\ d.bias \in {os.current.Bias, os.current.Bias + os.current.StandardBias}

\* the data of a successful conversion to UTC, and to the local time of it
HoldsUTC(u) ==
    /\ u.valid
    /\ u.bias = 0
    /\ u.tm.tm_isdst = 0
    /\ u.offset \in {"Z", "(UTC)"}
    /\ u.st = FileTimeToSystemTime(u.ft).st

HoldsLocalTimeOf(l, u) ==
    /\ l.valid
    /\ l.bias # 0
    /\ l.offset \notin {"Z", "(UTC)"}
    /\ l.ft = FileTimeSubtractMinutes(u.ft, l.bias).ft
    /\ l.st = FileTimeToSystemTime(l.ft).st

\* C25: after any sequence of GetTimeInfo, Clear and PreferLocalTime on one
\* TimeInfo, utc and local point to two distinct objects out of the base
\* subobject and the alternate object (also when valid is false),
\* prefer_local_time is true iff local is the base subobject, and on a valid
\* object *local holds the local time and *utc the UTC time of the timestamp,
\* so that the base subobject holds the preferred time.
C25_PointersAndDataAgree ==
    /\ {ti.utc, ti.local} = {"this", "_alternate_time_info"}
    /\ ti.prefer_local_time <=> ti.local = "this"
    /\ ti.valid =>
           /\ HoldsUTC(Pointee(ti, ti.utc))
           /\ HoldsLocalTimeOf(Pointee(ti, ti.local), Pointee(ti, ti.utc))
           /\ ti.timestamp = GetUTCTimestampString(Pointee(ti, ti.utc).format,
                                                   Pointee(ti, ti.utc).st)
           /\ ti.base = Pointee(ti, IF ti.prefer_local_time THEN ti.local
                                    ELSE ti.utc)
           /\ ti.prefer_local_time <=> ti.base.bias # 0

\* PreferLocalTime has put the UTC time in the base subobject of a TimeInfo
\* that holds a daylight saving time
C25_Witness ==
    /\ Returned("PreferLocalTime")
    /\ ti.valid
    /\ ~ti.prefer_local_time
    /\ ti.base.bias = 0
    /\ ti.alternate.tm.tm_isdst = 1

\* C26: every GetTimeInfo call leaves the valid flag of the output object
\* equal to its return value; on failure the object is fully cleared: ft, st
\* and tm zeroed, bias 0, the strings empty, for a TimeInfo the preferred and
\* the alternate time both.
C26_ValidIsTheReturnValue ==
    /\ Returned("GetTimeInfo") =>
           /\ ti.valid = ret
           /\ ti.base.valid = ret
           /\ ~ret => /\ ti.base = DayDateTime_Clear
                      /\ ti.alternate = DayDateTime_Clear
                      /\ ti.timestamp = ""
    /\ Returned("GetTimeInfo_DayDateTime") =>
           /\ ddt.valid = ret
           /\ ~ret => ddt = DayDateTime_Clear

\* the provider of the time zone has failed: the call has returned false
C26_Witness ==
    /\ Returned("GetTimeInfo")
    /\ ~ret
    /\ lastError = ERROR_FROM_WINAPI
    /\ iso8601.prefer_local_time

====
